---------------------------- MODULE Spec2Model ----------------------------
(***************************************************************************)
(* A model of the intersection-predicate engine (geom/alg_intersects.go),  *)
(* the segment primitives it rests on, and the distance engine             *)
(* (geom/alg_distance.go) of the simplefeatures geometry library.          *)
(*                                                                         *)
(* Coordinates are integers: every primitive of the engine is a sign test  *)
(* of sums of products of coordinates, which is exact on integers.         *)
(* Distances are kept as squared distances in rational form <<num, den>>   *)
(* (den = 0 stands for +Inf); the square root is monotone, so minima and   *)
(* comparisons of distances are those of the squared distances.            *)
(***************************************************************************)
EXTENDS Integers, Sequences, FiniteSets, TLC

VARIABLES
    pc,        \* position of the operation under study: "call", "loop", "done"
    g1, g2,    \* the two operands of the operation (n1/n2, mls1/mls2, pt/p)
    result,    \* the value the operation returned (Null before it returns)
    reached,   \* hasIntersection: the branch of the dispatch that was taken
    sides,     \* sweep: the two side records (unprocessed, active, newSegments)
    sweepX,    \* sweep: the X coordinate of the sweep line
    minDist,   \* distance: best distance so far
    part,      \* distance: index of the part of g1 whose search is running
    visited    \* distance: record IDs the running priority search has visited

vars == <<pc, g1, g2, result, reached, sides, sweepX, minDist, part, visited>>

Null == "null"

\* ------------------------------------------------------------------------
\* Bounds of the model
\* ------------------------------------------------------------------------

\* Segment endpoints of the segment/segment study range over (0..MaxCoord)^2.
MaxCoord == 2

\* Segment endpoints of the sweep study range over (0..MaxSweepX) x {0, 1}.
MaxSweepX == 2

\* The second operand of the dispatch study is moved by (0..MaxShift)^2.
MaxShift == 2

\* The points of the point/polygon study range over (0..MaxPointCoord)^2.
MaxPointCoord == 4

\* The second operand of the distance study is moved by (2 dx, dy) with dx
\* and dy in 0..MaxDistShift.
MaxDistShift == 3

\* Largest shift of one polygon over the other in the polygon pair study.
MaxPairShift == 4

\* The hull study takes up to MaxHullPoints points of the grid
\* (0..MaxHullX) x (0..MaxHullY).
MaxHullX == 3
MaxHullY == 2
MaxHullPoints == 5

\* The bulk study loads up to MaxItems items whose boxes are laid out with
\* strides 0..MaxStride.
MaxItems == 17
MaxStride == 3

\* The most ghost linestrings handed to addGhosts, and the most XYs other
\* than end points that are in interactions.
MaxGhosts == 2
MaxInteractions == 2

\* The longest item sequence handed to quickPartition on its own, and the
\* largest sort key of an item in it.
MaxQuickLen == 5
MaxKey == 2

\* The longest sequence handed to forEachNonInteractingSegment on its own,
\* the largest X of its XYs, and the most iterations of its loop followed.
MaxSeqLen == 4
MaxSeqX == 2
MaxCalls == 6

\* ------------------------------------------------------------------------
\* Small helpers
\* ------------------------------------------------------------------------

Min2(x, y) == IF x < y THEN x ELSE y
Max2(x, y) == IF x > y THEN x ELSE y

RECURSIVE FlattenSeq(_)
FlattenSeq(ss) == IF ss = <<>> THEN <<>> ELSE Head(ss) \o FlattenSeq(Tail(ss))

\* ------------------------------------------------------------------------
\* XY (xy.go)
\* ------------------------------------------------------------------------

XY(x, y) == [X |-> x, Y |-> y]

Sub(w, o) == XY(w.X - o.X, w.Y - o.Y)
Cross(w, o) == w.X * o.Y - w.Y * o.X
Dot(w, o) == w.X * o.X + w.Y * o.Y

\* ------------------------------------------------------------------------
\* Segment primitives
\* ------------------------------------------------------------------------

rightTurn == 1
collinear == 2
leftTurn == 3

orientation(p, q, s) ==
    LET cp == Cross(Sub(q, p), Sub(s, q))
    IN  IF cp > 0 THEN leftTurn
        ELSE IF cp < 0 THEN rightTurn
        ELSE collinear

\* onSegment(p, q, r): r lies in the bounding box of p and q (r is known to
\* be collinear with p and q where it is used).
onSegment(p, q, r) ==
    /\ r.X <= Max2(p.X, q.X)
    /\ r.X >= Min2(p.X, q.X)
    /\ r.Y <= Max2(p.Y, q.Y)
    /\ r.Y >= Min2(p.Y, q.Y)

\* A Line value: two distinct coordinates a and b.
Line(a, b) == [type |-> "Line", a |-> a, b |-> b]

hasIntersectionLineWithLineNoTouch(n1, n2) ==
    LET a == n1.a
        b == n1.b
        c == n2.a
        d == n2.b
        o1 == orientation(a, b, c)
        o2 == orientation(a, b, d)
        o3 == orientation(c, d, a)
        o4 == orientation(c, d, b)
    IN  IF o1 # o2 /\ o3 # o4 /\ o1 # collinear /\ o2 # collinear
                  /\ o3 # collinear /\ o4 # collinear THEN TRUE
        ELSE IF o1 = collinear /\ o2 = collinear
        THEN IF (~onSegment(a, b, c) /\ ~onSegment(a, b, d))
                  /\ (~onSegment(c, d, a) /\ ~onSegment(c, d, b))
             THEN FALSE
             ELSE TRUE
        ELSE FALSE

hasIntersectionLineWithLine(n1, n2) ==
    LET a == n1.a
        b == n1.b
        c == n2.a
        d == n2.b
        o1 == orientation(a, b, c)
        o2 == orientation(a, b, d)
        o3 == orientation(c, d, a)
        o4 == orientation(c, d, b)
    IN  IF o1 # o2 /\ o3 # o4 THEN TRUE
        ELSE IF o1 = collinear /\ o2 = collinear
        THEN IF (~onSegment(a, b, c) /\ ~onSegment(a, b, d))
                  /\ (~onSegment(c, d, a) /\ ~onSegment(c, d, b))
             THEN FALSE
             \* The block that drops the two extreme points of {a,b,c,d}
             \* returns true on both of its paths.
             ELSE TRUE
        ELSE FALSE

\* ------------------------------------------------------------------------
\* Segment/segment study: hasIntersectionLineWithLine on every pair of
\* segments of the grid.
\* ------------------------------------------------------------------------

Grid == {XY(x, y) : x \in 0..MaxCoord, y \in 0..MaxCoord}

Idle ==
    /\ reached = Null
    /\ sides = Null
    /\ sweepX = Null
    /\ minDist = Null
    /\ part = 0
    /\ visited = {}

InitLine ==
    /\ pc = "call"
    /\ \E a \in Grid, b \in Grid, c \in Grid, d \in Grid :
          /\ a # b
          /\ c # d
          /\ g1 = Line(a, b)
          /\ g2 = Line(c, d)
    /\ result = Null
    /\ Idle

CallLineWithLine ==
    /\ pc = "call"
    /\ result' = hasIntersectionLineWithLine(g1, g2)
    /\ pc' = "done"
    /\ UNCHANGED <<g1, g2, reached, sides, sweepX, minDist, part, visited>>

NextLine == CallLineWithLine

SpecLine == InitLine /\ [][NextLine]_vars

\* The closed segments n1 and n2 share a point, decided from the parametric
\* form a + t(b-a) = c + u(d-c) with 0 <= t, u <= 1 (Cramer's rule), and for
\* parallel segments from the overlap of their projections on b-a.
SegmentsSharePoint(n1, n2) ==
    LET r == Sub(n1.b, n1.a)
        s == Sub(n2.b, n2.a)
        w == Sub(n2.a, n1.a)
        den == Cross(r, s)
        tn == Cross(w, s)
        un == Cross(w, r)
        t0 == Dot(w, r)
        t1 == Dot(Sub(n2.b, n1.a), r)
    IN  IF den > 0 THEN 0 <= tn /\ tn <= den /\ 0 <= un /\ un <= den
        ELSE IF den < 0 THEN 0 >= tn /\ tn >= den /\ 0 >= un /\ un >= den
        ELSE IF un # 0 THEN FALSE
        ELSE Max2(t0, t1) >= 0 /\ Min2(t0, t1) <= Dot(r, r)

Point(xy) == [type |-> "Point", coords |-> xy]
LineString(pts) == [type |-> "LineString", pts |-> pts]
Polygon(rings) == [type |-> "Polygon", rings |-> rings]
MultiPoint(pts) == [type |-> "MultiPoint", pts |-> pts]
MultiLineString(lines) == [type |-> "MultiLineString", lines |-> lines]
MultiPolygon(polys) == [type |-> "MultiPolygon", polys |-> polys]
GeometryCollection(geoms) == [type |-> "GeometryCollection", geoms |-> geoms]

\* ls.lines: the Line between each two consecutive points of a LineString.
LinesOf(ls) == [i \in 1..(Len(ls.pts) - 1) |-> Line(ls.pts[i], ls.pts[i + 1])]

\* Line.AsLineString, LineString.AsMultiLineString, Polygon.AsMultiPolygon.
AsLineString(ln) == LineString(<<ln.a, ln.b>>)
AsMultiLineString(ls) == MultiLineString(<<ls>>)
AsMultiPolygon(p) == MultiPolygon(<<p>>)

\* ------------------------------------------------------------------------
\* MultiLineString with MultiLineString: the sweep line
\* ------------------------------------------------------------------------

\* Lines 252-255: a segment is turned so that its start has the smaller X.
Canonical(ln) == IF ln.a.X > ln.b.X THEN Line(ln.b, ln.a) ELSE ln

\* Lines 250-258: the segments of every linestring of mls, in order.
SegmentsOf(mls) ==
    FlattenSeq([i \in 1..Len(mls.lines) |->
        LET lns == LinesOf(mls.lines[i])
        IN  [k \in 1..Len(lns) |-> Canonical(lns[k])]])

\* sort.Slice on fewer than 12 elements is an insertion sort: an element moves
\* left past the elements whose start X is strictly greater.
RECURSIVE InsertByStartX(_, _)
InsertByStartX(sorted, ln) ==
    IF sorted = <<>> THEN <<ln>>
    ELSE LET last == sorted[Len(sorted)]
         IN  IF ln.a.X < last.a.X
             THEN Append(InsertByStartX(SubSeq(sorted, 1, Len(sorted) - 1), ln), last)
             ELSE Append(sorted, ln)

RECURSIVE SortByStartX(_)
SortByStartX(lns) ==
    IF lns = <<>> THEN <<>>
    ELSE InsertByStartX(SortByStartX(SubSeq(lns, 1, Len(lns) - 1)), lns[Len(lns)])

\* lineHeap with less = "smaller end X": peek is a segment of least end X.
HeapPeekIndex(data) ==
    CHOOSE i \in 1..Len(data) :
        /\ \A k \in 1..Len(data) : data[i].b.X <= data[k].b.X
        /\ \A k \in 1..(i - 1) : data[k].b.X > data[i].b.X
HeapPeek(data) == data[HeapPeekIndex(data)]
HeapPop(data) ==
    LET i == HeapPeekIndex(data)
    IN  SubSeq(data, 1, i - 1) \o SubSeq(data, i + 1, Len(data))
HeapPush(data, ln) == Append(data, ln)

\* Lines 239-264: a side before the sweep starts.
NewSide(mls) ==
    [unprocessed |-> SortByStartX(SegmentsOf(mls)),
     active      |-> <<>>,
     newSegments |-> <<>>]

NextSweepXLargest(ss) ==
    LET heads == {ss[i].unprocessed[1].a.X :
                     i \in {k \in 1..2 : ss[k].unprocessed # <<>>}}
    IN  CHOOSE x \in heads : \A y \in heads : x >= y

\* Lines 269-274.
NextSweepX(ss) ==
    LET heads == {ss[i].unprocessed[1].a.X :
                     i \in {k \in 1..2 : ss[k].unprocessed # <<>>}}
    IN  CHOOSE x \in heads : \A y \in heads : x <= y

RECURSIVE PopExpiredInclusive(_, _)
PopExpiredInclusive(data, x) ==
    IF data # <<>> /\ HeapPeek(data).b.X <= x
    THEN PopExpiredInclusive(HeapPop(data), x)
    ELSE data

\* Lines 280-282.
RECURSIVE PopExpired(_, _)
PopExpired(data, x) ==
    IF data # <<>> /\ HeapPeek(data).b.X < x
    THEN PopExpired(HeapPop(data), x)
    ELSE data

\* Lines 283-288: the segments starting at x leave unprocessed, in order.
RECURSIVE TakeNew(_, _)
TakeNew(side, x) ==
    IF side.unprocessed # <<>> /\ side.unprocessed[1].a.X = x
    THEN TakeNew([unprocessed |-> Tail(side.unprocessed),
                  active      |-> HeapPush(side.active, side.unprocessed[1]),
                  newSegments |-> Append(side.newSegments, side.unprocessed[1])], x)
    ELSE side

\* Lines 279-289 for one side.
AdvanceSide(side, x) ==
    TakeNew([unprocessed |-> side.unprocessed,
             active      |-> PopExpired(side.active, x),
             newSegments |-> <<>>], x)

\* Lines 293-302: some new segment meets an active segment of the other side.
SweepHit(ss) ==
    \E i \in 1..2 :
        \E c \in 1..Len(ss[i].newSegments) :
            \E k \in 1..Len(ss[3 - i].active) :
                hasIntersectionLineWithLine(ss[3 - i].active[k], ss[i].newSegments[c])

\* Line 266.
SweepPending(ss) == Len(ss[1].unprocessed) + Len(ss[2].unprocessed) > 0

\* One turn of the loop of lines 266-303: the sides after lines 269-289.
SweepTurn(ss) ==
    LET x == NextSweepX(ss)
    IN  <<AdvanceSide(ss[1], x), AdvanceSide(ss[2], x)>>

RECURSIVE SweepRun(_)
SweepRun(ss) ==
    IF ~SweepPending(ss) THEN FALSE
    ELSE LET next == SweepTurn(ss)
         IN  IF SweepHit(next) THEN TRUE ELSE SweepRun(next)

hasIntersectionMultiLineStringWithMultiLineString(mls1, mls2) ==
    SweepRun(<<NewSide(mls1), NewSide(mls2)>>)

\* ------------------------------------------------------------------------
\* Sweep study: the sweep run turn by turn on small MultiLineStrings.
\* ------------------------------------------------------------------------

SweepPoints == {XY(x, y) : x \in 0..MaxSweepX, y \in {0, 1}}

\* LineStrings of two points, and of three points.
SweepShort == {<<a, b>> : a \in SweepPoints, b \in SweepPoints} \ 
              {<<a, a>> : a \in SweepPoints}
SweepLong == {s \o <<c>> : s \in SweepShort, c \in SweepPoints} \ 
             {s \o <<s[2]>> : s \in SweepShort}

\* The first operand: one or two short linestrings, or a long one.
SweepWide ==
    {MultiLineString(<<LineString(s)>>) : s \in SweepShort \cup SweepLong}
    \cup {MultiLineString(<<LineString(s), LineString(t)>>) :
              s \in SweepShort, t \in SweepShort}
SweepNarrow == {MultiLineString(<<LineString(s)>>) : s \in SweepShort}

InitSweep ==
    /\ pc = "call"
    /\ \E w \in SweepWide, n \in SweepNarrow :
          \/ g1 = w /\ g2 = n
          \/ g1 = n /\ g2 = w
    /\ result = Null
    /\ reached = Null
    /\ sides = Null
    /\ sweepX = Null
    /\ minDist = Null
    /\ part = 0
    /\ visited = {}

\* Lines 229-264.
SweepSetup ==
    /\ pc = "call"
    /\ sides' = <<NewSide(g1), NewSide(g2)>>
    /\ pc' = "loop"
    /\ UNCHANGED <<g1, g2, result, reached, sweepX, minDist, part, visited>>

\* Lines 266-303: one turn of the loop; it returns true on a hit.
SweepStep ==
    /\ pc = "loop"
    /\ SweepPending(sides)
    /\ sweepX' = NextSweepX(sides)
    /\ sides' = SweepTurn(sides)
    /\ IF SweepHit(sides')
       THEN result' = TRUE /\ pc' = "done"
       ELSE UNCHANGED <<result, pc>>
    /\ UNCHANGED <<g1, g2, reached, minDist, part, visited>>

\* Line 304.
SweepExit ==
    /\ pc = "loop"
    /\ ~SweepPending(sides)
    /\ result' = FALSE
    /\ pc' = "done"
    /\ UNCHANGED <<g1, g2, reached, sides, sweepX, minDist, part, visited>>

NextSweep == SweepSetup \/ SweepStep \/ SweepExit

SpecSweep == InitSweep /\ [][NextSweep]_vars

\* Every segment of the first operand against every segment of the second.
BruteForceMLS(mls1, mls2) ==
    \E i \in 1..Len(mls1.lines), j \in 1..Len(mls2.lines) :
        \E k \in 1..(Len(mls1.lines[i].pts) - 1) :
            \E m \in 1..(Len(mls2.lines[j].pts) - 1) :
                hasIntersectionLineWithLine(LinesOf(mls1.lines[i])[k],
                                            LinesOf(mls2.lines[j])[m])

\* C2: the sweep returns what the brute-force test of every cross-side pair of
\* segments returns, and the run as a whole is the turn-by-turn run.
C2_SweepEqualsBruteForce ==
    pc = "done" =>
        /\ result = BruteForceMLS(g1, g2)
        /\ result = hasIntersectionMultiLineStringWithMultiLineString(g1, g2)

\* A hit found on a later turn, after a segment of the same side was popped.
C2_Witness ==
    /\ pc = "done"
    /\ result = TRUE
    /\ sweepX > 0
    /\ \E i \in 1..2 :
          Len(sides[i].active) + Len(sides[i].unprocessed) < Len(SegmentsOf(<<g1, g2>>[i]))

\* ------------------------------------------------------------------------
\* Emptiness, rank, boundary, envelope
\* ------------------------------------------------------------------------

\* IsEmpty of each variant: a Point, a Line, a LineString and a Polygon of this
\* model always hold coordinates; a collection is empty when every child is.
RECURSIVE IsEmpty(_)
IsEmpty(g) ==
    CASE g.type = "Point" -> FALSE
      [] g.type = "Line" -> FALSE
      [] g.type = "LineString" -> FALSE
      [] g.type = "Polygon" -> FALSE
      [] g.type = "MultiPoint" -> Len(g.pts) = 0
      [] g.type = "MultiLineString" -> Len(g.lines) = 0
      [] g.type = "MultiPolygon" -> Len(g.polys) = 0
      [] g.type = "GeometryCollection" ->
            \A i \in 1..Len(g.geoms) : IsEmpty(g.geoms[i])

\* The fixed rank that orders the operands of hasIntersection.
rank(g) ==
    CASE g.type = "Point" -> 1
      [] g.type = "Line" -> 2
      [] g.type = "LineString" -> 3
      [] g.type = "Polygon" -> 4
      [] g.type = "MultiPoint" -> 5
      [] g.type = "MultiLineString" -> 6
      [] g.type = "MultiPolygon" -> 7
      [] g.type = "GeometryCollection" -> 8

\* Polygon.Boundary and MultiPolygon.Boundary: the rings as linestrings.
PolygonBoundary(p) ==
    MultiLineString([i \in 1..Len(p.rings) |-> LineString(p.rings[i])])
MultiPolygonBoundary(mp) ==
    MultiLineString(FlattenSeq([i \in 1..Len(mp.polys) |->
                                   PolygonBoundary(mp.polys[i]).lines]))

ExteriorRing(p) == p.rings[1]
NumInteriorRings(p) == Len(p.rings) - 1
InteriorRingN(p, j) == p.rings[j + 2]

\* mustEnvelope(line).Contains(xy).
LineEnvelopeContains(line, xy) ==
    /\ Min2(line.a.X, line.b.X) <= xy.X
    /\ xy.X <= Max2(line.a.X, line.b.X)
    /\ Min2(line.a.Y, line.b.Y) <= xy.Y
    /\ xy.Y <= Max2(line.a.Y, line.b.Y)

\* ------------------------------------------------------------------------
\* Point handlers
\* ------------------------------------------------------------------------

hasIntersectionPointWithLine(point, line) ==
    IF ~LineEnvelopeContains(line, point.coords) THEN FALSE
    ELSE LET lhs == (point.coords.X - line.a.X) * (line.b.Y - line.a.Y)
             rhs == (point.coords.Y - line.a.Y) * (line.b.X - line.a.X)
         IN  lhs = rhs

hasIntersectionPointWithLineString(pt, ls) ==
    \E i \in 1..(Len(ls.pts) - 1) : hasIntersectionPointWithLine(pt, LinesOf(ls)[i])

hasIntersectionPointWithPoint(pt1, pt2) == pt1.coords = pt2.coords

hasIntersectionPointWithMultiPoint(point, mp) ==
    \E i \in 1..Len(mp.pts) : mp.pts[i].coords = point.coords

hasIntersectionMultiPointWithMultiPoint(mp1, mp2) ==
    \E i \in 1..Len(mp1.pts) : hasIntersectionPointWithMultiPoint(mp1.pts[i], mp2)

hasIntersectionPointWithMultiLineString(point, mls) ==
    \E i \in 1..Len(mls.lines) : hasIntersectionPointWithLineString(point, mls.lines[i])

hasIntersectionLineWithMultiPoint(ln, mp) ==
    \E i \in 1..Len(mp.pts) : hasIntersectionPointWithLine(mp.pts[i], ln)

hasIntersectionMultiPointWithMultiLineString(mp, mls) ==
    \E i \in 1..Len(mp.pts) :
        \E j \in 1..Len(mls.lines) :
            \E k \in 1..(Len(mls.lines[j].pts) - 1) :
                hasIntersectionPointWithLine(
                    mp.pts[i], Line(mls.lines[j].pts[k], mls.lines[j].pts[k + 1]))

\* ------------------------------------------------------------------------
\* Point in ring
\* ------------------------------------------------------------------------

interior == "interior"
boundary == "boundary"
exterior == "exterior"

\* The edge from u to v is crossed by the horizontal ray from xy towards +X.
\* An edge counts only when xy.Y is at or above its lower end and strictly
\* below its upper end, so a ray through a vertex counts the edges whose other
\* end is strictly above it.
RayCrosses(xy, u, v) ==
    LET lo == IF u.Y < v.Y THEN u ELSE v
        hi == IF u.Y < v.Y THEN v ELSE u
    IN  /\ lo.Y <= xy.Y
        /\ xy.Y < hi.Y
        /\ Cross(Sub(hi, lo), Sub(xy, lo)) > 0

pointRingSide(xy, ring) ==
    LET n == Len(ring) - 1
    IN  IF \E i \in 1..n :
               hasIntersectionPointWithLine(Point(xy), Line(ring[i], ring[i + 1]))
        THEN boundary
        ELSE IF Cardinality({i \in 1..n : RayCrosses(xy, ring[i], ring[i + 1])}) % 2 = 1
             THEN interior
             ELSE exterior

hasIntersectionPointWithPolygonHoleClosed(pt, p) ==
    IF pointRingSide(pt.coords, ExteriorRing(p)) = exterior THEN FALSE
    ELSE ~\E j \in 0..(NumInteriorRings(p) - 1) :
              pointRingSide(pt.coords, InteriorRingN(p, j)) # exterior

hasIntersectionPointWithPolygon(pt, p) ==
    IF pointRingSide(pt.coords, ExteriorRing(p)) = exterior THEN FALSE
    ELSE ~\E j \in 0..(NumInteriorRings(p) - 1) :
              pointRingSide(pt.coords, InteriorRingN(p, j)) = interior

hasIntersectionMultiPointWithPolygon(mp, p) ==
    \E i \in 1..Len(mp.pts) : hasIntersectionPointWithPolygon(mp.pts[i], p)

hasIntersectionPointWithMultiPolygon(pt, mp) ==
    \E i \in 1..Len(mp.polys) : hasIntersectionPointWithPolygon(pt, mp.polys[i])

hasIntersectionMultiPointWithMultiPolygon(pts, polys) ==
    \E i \in 1..Len(pts.pts) : hasIntersectionPointWithMultiPolygon(pts.pts[i], polys)


\* ------------------------------------------------------------------------
\* hasIntersection: the empty check, the rank swap, the collection branch and
\* the dispatch.  An outcome is the branch taken together with the value
\* returned; the branch "unhandled" is the panic that ends the dispatch.
\* ------------------------------------------------------------------------

RECURSIVE hasIntersection(_, _)

\* Line.AsLineString().AsMultiLineString(), LineString.AsMultiLineString().
LineAsMLS(ln) == AsMultiLineString(AsLineString(ln))

Outcome(branch, ret) == [branch |-> branch, ret |-> ret]
Unhandled == Outcome("unhandled", FALSE)

\* Lines 317-323: the loops return at their first point, so only the first
\* point of the first linestring that has a point is tested.
hasIntersectionMultiLineStringWithMultiPolygon(mls, mp) ==
    IF hasIntersection(mls, MultiPolygonBoundary(mp)) THEN TRUE
    ELSE LET withPts == {i \in 1..Len(mls.lines) : Len(mls.lines[i].pts) > 0}
         IN  IF withPts = {} THEN FALSE
             ELSE LET i == CHOOSE k \in withPts : \A m \in withPts : k <= m
                  IN  hasIntersectionPointWithMultiPolygon(Point(mls.lines[i].pts[1]), mp)

hasIntersectionPolygonWithPolygonOneWay(p1, p2) ==
    LET b1 == PolygonBoundary(p1)
        b2 == PolygonBoundary(p2)
    IN  IF hasIntersection(b1, b2) THEN TRUE
        ELSE hasIntersection(Point(ExteriorRing(p1)[1]), p2)

hasIntersectionPolygonWithPolygonBoundaryOnly(p1, p2) ==
    hasIntersection(PolygonBoundary(p1), PolygonBoundary(p2))

hasIntersectionPolygonWithPolygon(p1, p2) ==
    LET b1 == PolygonBoundary(p1)
        b2 == PolygonBoundary(p2)
    IN  IF hasIntersection(b1, b2) THEN TRUE
        ELSE \/ hasIntersection(Point(ExteriorRing(p1)[1]), p2)
             \/ hasIntersection(Point(ExteriorRing(p2)[1]), p1)

hasIntersectionMultiPolygonWithMultiPolygon(mp1, mp2) ==
    \E i \in 1..Len(mp1.polys) :
        \E j \in 1..Len(mp2.polys) : hasIntersection(mp1.polys[i], mp2.polys[j])

\* Lines 33-49.
DispatchPoint(a, b) ==
    CASE b.type = "Point" ->
            Outcome("hasIntersectionPointWithPoint", hasIntersectionPointWithPoint(a, b))
      [] b.type = "Line" ->
            Outcome("hasIntersectionPointWithLine", hasIntersectionPointWithLine(a, b))
      [] b.type = "LineString" ->
            Outcome("hasIntersectionPointWithLineString",
                    hasIntersectionPointWithLineString(a, b))
      [] b.type = "Polygon" ->
            Outcome("hasIntersectionPointWithPolygon", hasIntersectionPointWithPolygon(a, b))
      [] b.type = "MultiPoint" ->
            Outcome("hasIntersectionPointWithMultiPoint",
                    hasIntersectionPointWithMultiPoint(a, b))
      [] b.type = "MultiLineString" ->
            Outcome("hasIntersectionPointWithMultiLineString",
                    hasIntersectionPointWithMultiLineString(a, b))
      [] b.type = "MultiPolygon" ->
            Outcome("hasIntersectionPointWithMultiPolygon",
                    hasIntersectionPointWithMultiPolygon(a, b))
      [] OTHER -> Unhandled

\* Lines 50-74.
DispatchLine(a, b) ==
    CASE b.type = "Line" ->
            Outcome("hasIntersectionLineWithLine", hasIntersectionLineWithLine(a, b))
      [] b.type = "LineString" ->
            Outcome("hasIntersectionMultiLineStringWithMultiLineString",
                    hasIntersectionMultiLineStringWithMultiLineString(
                        LineAsMLS(a), AsMultiLineString(b)))
      [] b.type = "Polygon" ->
            Outcome("hasIntersectionMultiLineStringWithMultiPolygon",
                    hasIntersectionMultiLineStringWithMultiPolygon(
                        LineAsMLS(a), AsMultiPolygon(b)))
      [] b.type = "MultiPoint" ->
            Outcome("hasIntersectionLineWithMultiPoint",
                    hasIntersectionLineWithMultiPoint(a, b))
      [] b.type = "MultiLineString" ->
            Outcome("hasIntersectionMultiLineStringWithMultiLineString",
                    hasIntersectionMultiLineStringWithMultiLineString(LineAsMLS(a), b))
      [] b.type = "MultiPolygon" ->
            Outcome("hasIntersectionMultiLineStringWithMultiPolygon",
                    hasIntersectionMultiLineStringWithMultiPolygon(LineAsMLS(a), b))
      [] OTHER -> Unhandled

\* Lines 75-100.
DispatchLineString(a, b) ==
    CASE b.type = "LineString" ->
            Outcome("hasIntersectionMultiLineStringWithMultiLineString",
                    hasIntersectionMultiLineStringWithMultiLineString(
                        AsMultiLineString(a), AsMultiLineString(b)))
      [] b.type = "Polygon" ->
            Outcome("hasIntersectionMultiLineStringWithMultiPolygon",
                    hasIntersectionMultiLineStringWithMultiPolygon(
                        AsMultiLineString(a), AsMultiPolygon(b)))
      [] b.type = "MultiPoint" ->
            Outcome("hasIntersectionMultiPointWithMultiLineString",
                    hasIntersectionMultiPointWithMultiLineString(b, AsMultiLineString(a)))
      [] b.type = "MultiLineString" ->
            Outcome("hasIntersectionMultiLineStringWithMultiLineString",
                    hasIntersectionMultiLineStringWithMultiLineString(
                        AsMultiLineString(a), b))
      [] b.type = "MultiPolygon" ->
            Outcome("hasIntersectionMultiLineStringWithMultiPolygon",
                    hasIntersectionMultiLineStringWithMultiPolygon(AsMultiLineString(a), b))
      [] OTHER -> Unhandled

\* Lines 101-115.
DispatchPolygon(a, b) ==
    CASE b.type = "Polygon" ->
            Outcome("hasIntersectionPolygonWithPolygon",
                    hasIntersectionPolygonWithPolygon(a, b))
      [] b.type = "MultiPoint" ->
            Outcome("hasIntersectionMultiPointWithPolygon",
                    hasIntersectionMultiPointWithPolygon(b, a))
      [] b.type = "MultiLineString" ->
            Outcome("hasIntersectionMultiLineStringWithMultiPolygon",
                    hasIntersectionMultiLineStringWithMultiPolygon(b, AsMultiPolygon(a)))
      [] b.type = "MultiPolygon" ->
            Outcome("hasIntersectionMultiPolygonWithMultiPolygon",
                    hasIntersectionMultiPolygonWithMultiPolygon(AsMultiPolygon(a), b))
      [] OTHER -> Unhandled

\* Lines 116-124.
DispatchMultiPoint(a, b) ==
    CASE b.type = "MultiPoint" ->
            Outcome("hasIntersectionMultiPointWithMultiPoint",
                    hasIntersectionMultiPointWithMultiPoint(a, b))
      [] b.type = "MultiLineString" ->
            Outcome("hasIntersectionMultiPointWithMultiLineString",
                    hasIntersectionMultiPointWithMultiLineString(a, b))
      [] b.type = "MultiPolygon" ->
            Outcome("hasIntersectionMultiPointWithMultiPolygon",
                    hasIntersectionMultiPointWithMultiPolygon(a, b))
      [] OTHER -> Unhandled

DispatchMultiLineStringNoPolygon(a, b) ==
    CASE b.type = "MultiLineString" ->
            Outcome("hasIntersectionMultiLineStringWithMultiLineString",
                    hasIntersectionMultiLineStringWithMultiLineString(a, b))
      [] OTHER -> Unhandled

\* Lines 125-131.
DispatchMultiLineString(a, b) ==
    CASE b.type = "MultiLineString" ->
            Outcome("hasIntersectionMultiLineStringWithMultiLineString",
                    hasIntersectionMultiLineStringWithMultiLineString(a, b))
      [] b.type = "MultiPolygon" ->
            Outcome("hasIntersectionMultiLineStringWithMultiPolygon",
                    hasIntersectionMultiLineStringWithMultiPolygon(a, b))
      [] OTHER -> Unhandled

\* Lines 132-136.
DispatchMultiPolygon(a, b) ==
    CASE b.type = "MultiPolygon" ->
            Outcome("hasIntersectionMultiPolygonWithMultiPolygon",
                    hasIntersectionMultiPolygonWithMultiPolygon(a, b))
      [] OTHER -> Unhandled

\* Lines 32-139.
Dispatch(a, b) ==
    CASE a.type = "Point" -> DispatchPoint(a, b)
      [] a.type = "Line" -> DispatchLine(a, b)
      [] a.type = "LineString" -> DispatchLineString(a, b)
      [] a.type = "Polygon" -> DispatchPolygon(a, b)
      [] a.type = "MultiPoint" -> DispatchMultiPoint(a, b)
      [] a.type = "MultiLineString" -> DispatchMultiLineString(a, b)
      [] a.type = "MultiPolygon" -> DispatchMultiPolygon(a, b)
      [] OTHER -> Unhandled

EitherEmptySecondOnly(a, b) == IsEmpty(b)

\* Lines 10-15.
EitherEmpty(a, b) == IsEmpty(b) \/ IsEmpty(a)

OrderedAsGiven(a, b) == <<a, b>>

\* Lines 17-19.
Ordered(a, b) == IF rank(a) > rank(b) THEN <<b, a>> ELSE <<a, b>>

IntersectsCollectionFirstChild(g, gc) ==
    Len(gc.geoms) > 0 /\ hasIntersection(g, gc.geoms[1])

\* Lines 22-29.
IntersectsCollection(g, gc) ==
    \E i \in 1..Len(gc.geoms) : hasIntersection(g, gc.geoms[i])

hasIntersectionOutcome(a, b) ==
    IF EitherEmpty(a, b) THEN Outcome("empty", FALSE)
    ELSE LET o == Ordered(a, b)
         IN  IF o[2].type = "GeometryCollection"
             THEN Outcome("collection", IntersectsCollection(o[1], o[2]))
             ELSE Dispatch(o[1], o[2])

hasIntersection(a, b) == hasIntersectionOutcome(a, b).ret


\* ------------------------------------------------------------------------
\* Dispatch study: hasIntersection on every pair of a shape and a shifted
\* shape.  The shapes hold every variant, empty and non-empty.
\* ------------------------------------------------------------------------

\* The closed ring of the axis-parallel square from (x, y) with side d,
\* counter-clockwise, and the same ring clockwise (a hole).
Square(x, y, d) ==
    <<XY(x, y), XY(x + d, y), XY(x + d, y + d), XY(x, y + d), XY(x, y)>>
Hole(x, y, d) ==
    <<XY(x, y), XY(x, y + d), XY(x + d, y + d), XY(x + d, y), XY(x, y)>>

Shapes ==
    <<Point(XY(2, 2)),
      Line(XY(1, 1), XY(3, 3)),
      LineString(<<XY(0, 2), XY(2, 2), XY(2, 4)>>),
      Polygon(<<Square(0, 0, 4)>>),
      Polygon(<<Square(0, 0, 4), Hole(1, 1, 2)>>),
      Polygon(<<<<XY(0, 0), XY(2, 0), XY(0, 2), XY(0, 0)>>>>),
      MultiPoint(<<>>),
      MultiPoint(<<Point(XY(0, 0)), Point(XY(3, 2))>>),
      MultiLineString(<<>>),
      MultiLineString(<<LineString(<<XY(0, 0), XY(1, 0)>>),
                        LineString(<<XY(2, 2), XY(3, 2)>>)>>),
      MultiPolygon(<<>>),
      MultiPolygon(<<Polygon(<<Square(0, 0, 1)>>), Polygon(<<Square(2, 2, 2)>>)>>),
      GeometryCollection(<<>>),
      GeometryCollection(<<MultiPoint(<<>>), GeometryCollection(<<>>)>>),
      GeometryCollection(<<Point(XY(0, 1)), LineString(<<XY(3, 0), XY(3, 1)>>)>>),
      GeometryCollection(<<MultiLineString(<<>>),
                           GeometryCollection(<<Point(XY(1, 1))>>),
                           Polygon(<<Square(3, 3, 1)>>)>>)>>

ShiftXY(xy, d) == XY(xy.X + d.X, xy.Y + d.Y)
ShiftSeq(pts, d) == [i \in 1..Len(pts) |-> ShiftXY(pts[i], d)]

\* The geometry g moved by the vector d.
RECURSIVE Shift(_, _)
Shift(g, d) ==
    CASE g.type = "Point" -> Point(ShiftXY(g.coords, d))
      [] g.type = "Line" -> Line(ShiftXY(g.a, d), ShiftXY(g.b, d))
      [] g.type = "LineString" -> LineString(ShiftSeq(g.pts, d))
      [] g.type = "Polygon" ->
            Polygon([i \in 1..Len(g.rings) |-> ShiftSeq(g.rings[i], d)])
      [] g.type = "MultiPoint" ->
            MultiPoint([i \in 1..Len(g.pts) |-> Shift(g.pts[i], d)])
      [] g.type = "MultiLineString" ->
            MultiLineString([i \in 1..Len(g.lines) |-> Shift(g.lines[i], d)])
      [] g.type = "MultiPolygon" ->
            MultiPolygon([i \in 1..Len(g.polys) |-> Shift(g.polys[i], d)])
      [] g.type = "GeometryCollection" ->
            GeometryCollection([i \in 1..Len(g.geoms) |-> Shift(g.geoms[i], d)])

InitIntersects ==
    /\ pc = "call"
    /\ \E i \in 1..Len(Shapes), j \in 1..Len(Shapes) :
          \E dx \in 0..MaxShift, dy \in 0..MaxShift :
              /\ g1 = Shapes[i]
              /\ g2 = Shift(Shapes[j], XY(dx, dy))
    /\ result = Null
    /\ Idle

CallHasIntersection ==
    /\ pc = "call"
    /\ result' = hasIntersectionOutcome(g1, g2).ret
    /\ reached' = hasIntersectionOutcome(g1, g2).branch
    /\ pc' = "done"
    /\ UNCHANGED <<g1, g2, sides, sweepX, minDist, part, visited>>

NextIntersects == CallHasIntersection

SpecIntersects == InitIntersects /\ [][NextIntersects]_vars


\* The operands as hasIntersection orders them, seen as the MultiLineString
\* and the MultiPolygon that the dispatch hands to the handler.
OperandAsMLS(g) ==
    CASE g.type = "Line" -> LineAsMLS(g)
      [] g.type = "LineString" -> AsMultiLineString(g)
      [] OTHER -> g
OperandAsMultiPolygon(g) ==
    CASE g.type = "Polygon" -> AsMultiPolygon(g)
      [] OTHER -> g
LinealOperand ==
    IF g1.type \in {"Line", "LineString", "MultiLineString"} THEN g1 ELSE g2
ArealOperand ==
    IF g1.type \in {"Polygon", "MultiPolygon"} THEN g1 ELSE g2

\* The MultiLineString and the MultiPolygon share a point: a segment meets a
\* ring, or (no segment crossing the boundary) some control point lies in a
\* polygon.
MLSMeetsMultiPolygon(mls, mp) ==
    \/ BruteForceMLS(mls, MultiPolygonBoundary(mp))
    \/ \E i \in 1..Len(mls.lines) :
           \E j \in 1..Len(mls.lines[i].pts) :
               \E k \in 1..Len(mp.polys) :
                   /\ pointRingSide(mls.lines[i].pts[j], ExteriorRing(mp.polys[k])) # exterior
                   /\ \A h \in 2..Len(mp.polys[k].rings) :
                          pointRingSide(mls.lines[i].pts[j], mp.polys[k].rings[h]) # interior

\* C3: hasIntersectionMultiLineStringWithMultiPolygon returns true exactly when
\* the MultiLineString and the MultiPolygon share a point; control points are
\* tested until one lies in the MultiPolygon or all are exhausted.
C3_MLSWithMultiPolygonTestsAllPoints ==
    (pc = "done" /\ reached = "hasIntersectionMultiLineStringWithMultiPolygon") =>
        result = MLSMeetsMultiPolygon(OperandAsMLS(LinealOperand),
                                      OperandAsMultiPolygon(ArealOperand))

C7_IntersectsSymmetric ==
    pc = "done" => (result = hasIntersection(g2, g1))

\* Two polygons of equal rank, one strictly inside the other.
C7_Witness ==
    /\ pc = "done"
    /\ g1.type = "Polygon"
    /\ g2.type = "Polygon"
    /\ result = TRUE
    /\ ~hasIntersection(PolygonBoundary(g1), PolygonBoundary(g2))

\* C8: for every pair of non-empty operands hasIntersection reaches a handler
\* (or the collection branch) and returns a boolean; the panic that ends the
\* dispatch is not reached.
C8_DispatchCoversAllPairs ==
    (pc = "done" /\ ~IsEmpty(g1) /\ ~IsEmpty(g2)) =>
        /\ reached \notin {"unhandled", "empty", Null}
        /\ result \in BOOLEAN

\* A pair the rank ordering swaps before it is dispatched.
C8_Witness ==
    /\ pc = "done"
    /\ g1.type = "MultiPolygon"
    /\ g2.type = "MultiLineString"
    /\ reached = "hasIntersectionMultiLineStringWithMultiPolygon"

\* C9: when an operand is a non-empty GeometryCollection, hasIntersection
\* returns the OR, over that collection's children, of Intersects(other
\* operand, child), on whichever side the collection was passed.
C9_CollectionIsOrOverChildren ==
    pc = "done" =>
        /\ (g2.type = "GeometryCollection" /\ ~IsEmpty(g2)) =>
              (result = \E i \in 1..Len(g2.geoms) : hasIntersection(g1, g2.geoms[i]))
        /\ (g1.type = "GeometryCollection" /\ ~IsEmpty(g1)) =>
              (result = \E i \in 1..Len(g1.geoms) : hasIntersection(g2, g1.geoms[i]))

\* A collection passed first whose first child misses the other operand and
\* whose later child meets it.
C9_Witness ==
    /\ pc = "done"
    /\ g1.type = "GeometryCollection"
    /\ g2.type # "GeometryCollection"
    /\ ~IsEmpty(g2)
    /\ Len(g1.geoms) > 1
    /\ ~hasIntersection(g2, g1.geoms[1])
    /\ result = TRUE

\* ------------------------------------------------------------------------
\* Point/polygon study: hasIntersectionPointWithPolygon on every grid point
\* and a polygon without holes, with one hole, with two holes, and with a hole
\* that touches the exterior ring.
\* ------------------------------------------------------------------------

PointGrid == {XY(x, y) : x \in 0..MaxPointCoord, y \in 0..MaxPointCoord}

RingPolygons ==
    <<Polygon(<<Square(0, 0, 4)>>),
      Polygon(<<Square(0, 0, 4), Hole(1, 1, 2)>>),
      Polygon(<<<<XY(0, 0), XY(4, 0), XY(0, 4), XY(0, 0)>>>>),
      Polygon(<<Square(0, 0, 4), Hole(1, 1, 1), Hole(2, 2, 1)>>),
      Polygon(<<Square(0, 0, 4), <<XY(0, 2), XY(2, 3), XY(2, 1), XY(0, 2)>>>>),
      Polygon(<<Square(1, 1, 3), <<XY(2, 2), XY(2, 3), XY(3, 2), XY(2, 2)>>>>)>>

InitPointPolygon ==
    /\ pc = "call"
    /\ \E xy \in PointGrid, i \in 1..Len(RingPolygons) :
          /\ g1 = Point(xy)
          /\ g2 = RingPolygons[i]
    /\ result = Null
    /\ Idle

CallPointWithPolygon ==
    /\ pc = "call"
    /\ result' = hasIntersectionPointWithPolygon(g1, g2)
    /\ pc' = "done"
    /\ UNCHANGED <<g1, g2, reached, sides, sweepX, minDist, part, visited>>

NextPointPolygon == CallPointWithPolygon

SpecPointPolygon == InitPointPolygon /\ [][NextPointPolygon]_vars

\* The point xy lies on a segment of the ring.
OnRing(xy, ring) ==
    \E i \in 1..(Len(ring) - 1) :
        /\ Cross(Sub(ring[i + 1], ring[i]), Sub(xy, ring[i])) = 0
        /\ Dot(Sub(xy, ring[i]), Sub(xy, ring[i + 1])) <= 0

\* C10: hasIntersectionPointWithPolygon returns false when the point is
\* Exterior to the exterior ring, false when it is Interior to some interior
\* ring, and true otherwise; a point on the exterior ring or on the ring of a
\* hole intersects the polygon.
C10_PointWithPolygonByRingSide ==
    pc = "done" =>
        /\ (pointRingSide(g1.coords, g2.rings[1]) = exterior) => (result = FALSE)
        /\ (\E h \in 2..Len(g2.rings) :
               pointRingSide(g1.coords, g2.rings[h]) = interior) => (result = FALSE)
        /\ (/\ pointRingSide(g1.coords, g2.rings[1]) # exterior
            /\ \A h \in 2..Len(g2.rings) :
                   pointRingSide(g1.coords, g2.rings[h]) # interior) => (result = TRUE)
        /\ (\E h \in 1..Len(g2.rings) : OnRing(g1.coords, g2.rings[h])) => (result = TRUE)

\* A point on the ring of a hole, and not on the exterior ring.
C10_Witness ==
    /\ pc = "done"
    /\ result = TRUE
    /\ Len(g2.rings) > 1
    /\ OnRing(g1.coords, g2.rings[2])
    /\ ~OnRing(g1.coords, g2.rings[1])


\* ------------------------------------------------------------------------
\* Distance engine (alg_distance.go).  A distance is the rational
\* <<num, den>> of its square; <<1, 0>> is +Inf.
\* ------------------------------------------------------------------------

Inf == <<1, 0>>
Zero == <<0, 1>>
RatLess(p, q) == p[1] * q[2] < q[1] * p[2]
RatEq(p, q) == p[1] * q[2] = q[1] * p[2] /\ (p[2] = 0) = (q[2] = 0)
\* math.Min
RatMin(p, q) == IF RatLess(q, p) THEN q ELSE p

distBetweenXYs(xy1, xy2) == <<Dot(Sub(xy1, xy2), Sub(xy1, xy2)), 1>>

\* proj = (xy - a).ab / |ab| is below 0, above |ab|, or the foot of the
\* perpendicular lies on the segment, at squared distance
\* |xy - a|^2 - ((xy - a).ab)^2 / |ab|^2.
distBetweenXYAndLine(xy, ln) ==
    LET ab == Sub(ln.b, ln.a)
        w == Sub(xy, ln.a)
        abLen2 == Dot(ab, ab)
        d == Dot(w, ab)
    IN  IF d < 0 THEN distBetweenXYs(xy, ln.a)
        ELSE IF d > abLen2 THEN distBetweenXYs(xy, ln.b)
        ELSE <<Dot(w, w) * abLen2 - d * d, abLen2>>

distBetweenLineAndLineOneWay(ln1, ln2) ==
    RatMin(RatMin(Inf, distBetweenXYAndLine(ln1.a, ln2)),
           distBetweenXYAndLine(ln1.b, ln2))

distBetweenLineAndLine(ln1, ln2) ==
    RatMin(RatMin(RatMin(RatMin(Inf, distBetweenXYAndLine(ln1.a, ln2)),
                         distBetweenXYAndLine(ln1.b, ln2)),
                  distBetweenXYAndLine(ln2.a, ln1)),
           distBetweenXYAndLine(ln2.b, ln1))

\* asLines of a MultiLineString: the segments of its linestrings, as given.
AsLines(mls) ==
    FlattenSeq([i \in 1..Len(mls.lines) |-> LinesOf(mls.lines[i])])

\* extractXYsAndLines: <<xys, lines>>.  There is no case for a Line.
RECURSIVE extractXYsAndLines(_)
RECURSIVE ExtractAll(_)
ExtractAll(gs) ==
    IF gs = <<>> THEN <<<<>>, <<>>>>
    ELSE LET h == extractXYsAndLines(Head(gs))
             t == ExtractAll(Tail(gs))
         IN  <<h[1] \o t[1], h[2] \o t[2]>>
extractXYsAndLines(g) ==
    CASE g.type = "Point" -> <<<<g.coords>>, <<>>>>
      [] g.type = "LineString" -> <<<<>>, LinesOf(g)>>
      [] g.type = "Polygon" -> <<<<>>, AsLines(PolygonBoundary(g))>>
      [] g.type = "MultiPoint" -> <<[i \in 1..Len(g.pts) |-> g.pts[i].coords], <<>>>>
      [] g.type = "MultiLineString" -> <<<<>>, AsLines(g)>>
      [] g.type = "MultiPolygon" -> <<<<>>, AsLines(MultiPolygonBoundary(g))>>
      [] g.type = "GeometryCollection" -> ExtractAll(g.geoms)

\* Envelopes: of one XY, of a line, and the distance between two envelopes.
XYEnvelope(xy) == [min |-> xy, max |-> xy]
LineEnvelope(ln) ==
    [min |-> XY(Min2(ln.a.X, ln.b.X), Min2(ln.a.Y, ln.b.Y)),
     max |-> XY(Max2(ln.a.X, ln.b.X), Max2(ln.a.Y, ln.b.Y))]
EnvelopeDistance(e, o) ==
    LET dx == Max2(0, Max2(o.min.X - e.max.X, e.min.X - o.max.X))
        dy == Max2(0, Max2(o.min.Y - e.max.Y, e.min.Y - o.max.Y))
    IN  <<dx * dx + dy * dy, 1>>

loadTreeFromZero(xys, lns) ==
    [i \in 1..Len(xys) |-> [Box |-> XYEnvelope(xys[i]), RecordID |-> i - 1]]
    \o [i \in 1..Len(lns) |-> [Box |-> LineEnvelope(lns[i]), RecordID |-> 0 - (i - 1)]]

\* loadTree: the items handed to BulkLoad; XY i (from 0) gets record ID i + 1,
\* line i gets -(i + 1).
loadTree(xys, lns) ==
    [i \in 1..Len(xys) |-> [Box |-> XYEnvelope(xys[i]), RecordID |-> i]]
    \o [i \in 1..Len(lns) |-> [Box |-> LineEnvelope(lns[i]), RecordID |-> 0 - i]]

xys1 == extractXYsAndLines(g1)[1]
lns1 == extractXYsAndLines(g1)[2]
xys2 == extractXYsAndLines(g2)[1]
lns2 == extractXYsAndLines(g2)[2]
tr == loadTree(xys2, lns2)

\* The parts of g1 in the order of lines 68-89: its XYs, then its lines.
NumParts == Len(xys1) + Len(lns1)
PartIsXY(k) == k <= Len(xys1)
PartXY(k) == xys1[k]
PartLine(k) == lns1[k - Len(xys1)]
PartEnvelope(k) == IF PartIsXY(k) THEN XYEnvelope(PartXY(k)) ELSE LineEnvelope(PartLine(k))

\* Lines 49-54.
RecordEnvelope(recordID) ==
    IF recordID > 0 THEN XYEnvelope(xys2[recordID]) ELSE LineEnvelope(lns2[0 - recordID])

\* xyDist and lnDist of lines 74-75 and 85-86, for the part k.
xyDist(k, i) ==
    IF PartIsXY(k) THEN distBetweenXYs(PartXY(k), xys2[i])
    ELSE distBetweenXYAndLine(xys2[i], PartLine(k))
lnDist(k, i) ==
    IF PartIsXY(k) THEN distBetweenXYAndLine(PartXY(k), lns2[i])
    ELSE distBetweenLineAndLine(lns2[i], PartLine(k))

shouldStopInverted(env, recordID, best) ==
    RatLess(EnvelopeDistance(RecordEnvelope(recordID), env), best)

\* Line 55.
shouldStop(env, recordID, best) ==
    RatLess(best, EnvelopeDistance(RecordEnvelope(recordID), env))

\* Lines 61-65.
improved(k, recordID, best) ==
    IF recordID > 0 THEN RatMin(best, xyDist(k, recordID))
    ELSE RatMin(best, lnDist(k, 0 - recordID))

\* PrioritySearch: the records not yet visited whose box is nearest to the
\* query box; any of them may be the next one handed to the visitor.
NextRecords(box, seen) ==
    LET left == {i \in 1..Len(tr) : tr[i].RecordID \notin seen}
    IN  {tr[i].RecordID : i \in
            {k \in left : \A m \in left :
                ~RatLess(EnvelopeDistance(tr[m].Box, box), EnvelopeDistance(tr[k].Box, box))}}

\* ------------------------------------------------------------------------
\* Distance study
\* ------------------------------------------------------------------------

\* The shapes extractXYsAndLines has a case for.
DistanceShapes == SelectSeq(Shapes, LAMBDA g : g.type # "Line")

InitDistance ==
    /\ pc = "call"
    /\ \E i \in 1..Len(DistanceShapes), j \in 1..Len(DistanceShapes) :
          \E dx \in 0..MaxDistShift, dy \in 0..MaxDistShift :
              /\ g1 = DistanceShapes[i]
              /\ g2 = Shift(DistanceShapes[j], XY(dx + dx, dy))
    /\ result = Null
    /\ reached = Null
    /\ sides = Null
    /\ sweepX = Null
    /\ minDist = Null
    /\ part = 0
    /\ visited = {}

\* Lines 13-35.
DistanceStart ==
    /\ pc = "call"
    /\ IF hasIntersection(g1, g2)
       THEN /\ result' = [dist |-> Zero, ok |-> TRUE]
            /\ pc' = "done"
            /\ UNCHANGED <<minDist, part>>
       ELSE /\ minDist' = Inf
            /\ part' = 1
            /\ pc' = "search"
            /\ UNCHANGED result
    /\ UNCHANGED <<g1, g2, reached, sides, sweepX, visited>>

\* Lines 37-67: the priority search of the running part hands its next record
\* to the visitor, which stops the search or improves minDist.
SearchVisit ==
    /\ pc = "search"
    /\ part <= NumParts
    /\ \E recordID \in NextRecords(PartEnvelope(part), visited) :
          IF shouldStop(PartEnvelope(part), recordID, minDist)
          THEN /\ part' = part + 1
               /\ visited' = {}
               /\ UNCHANGED minDist
          ELSE /\ minDist' = improved(part, recordID, minDist)
               /\ visited' = visited \cup {recordID}
               /\ UNCHANGED part
    /\ UNCHANGED <<pc, g1, g2, result, reached, sides, sweepX>>

\* The priority search of the running part has visited every record.
SearchEnd ==
    /\ pc = "search"
    /\ part <= NumParts
    /\ NextRecords(PartEnvelope(part), visited) = {}
    /\ part' = part + 1
    /\ visited' = {}
    /\ UNCHANGED <<pc, g1, g2, result, reached, sides, sweepX, minDist>>

\* Lines 91-94.
DistanceReturn ==
    /\ pc = "search"
    /\ part > NumParts
    /\ result' = IF minDist = Inf THEN [dist |-> Zero, ok |-> FALSE]
                 ELSE [dist |-> minDist, ok |-> TRUE]
    /\ pc' = "done"
    /\ UNCHANGED <<g1, g2, reached, sides, sweepX, minDist, part, visited>>

NextDistance == DistanceStart \/ SearchVisit \/ SearchEnd \/ DistanceReturn

SpecDistance == InitDistance /\ [][NextDistance]_vars

\* The distances of all pairs of a part of g1 and a record of g2.
PairDistances ==
    {xyDist(k, i) : k \in 1..NumParts, i \in 1..Len(xys2)}
    \cup {lnDist(k, i) : k \in 1..NumParts, i \in 1..Len(lns2)}
IsLeast(d) == d \in PairDistances /\ \A e \in PairDistances : ~RatLess(e, d)

\* The polygons of a geometry, and the XYs its parts start and end at.
RECURSIVE PolygonsOf(_)
PolygonsOf(g) ==
    CASE g.type = "Polygon" -> <<g>>
      [] g.type = "MultiPolygon" -> g.polys
      [] g.type = "GeometryCollection" ->
            FlattenSeq([i \in 1..Len(g.geoms) |-> PolygonsOf(g.geoms[i])])
      [] OTHER -> <<>>
VerticesOf(g) ==
    LET e == extractXYsAndLines(g)
    IN  {e[1][i] : i \in 1..Len(e[1])} \cup {e[2][i].a : i \in 1..Len(e[2])}
        \cup {e[2][i].b : i \in 1..Len(e[2])}
InsidePolygon(xy, p) ==
    /\ pointRingSide(xy, p.rings[1]) # exterior
    /\ \A h \in 2..Len(p.rings) : pointRingSide(xy, p.rings[h]) # interior

\* The geometries a and b share a point: two of their parts (points,
\* segments, ring segments) meet, or a vertex of one lies in a polygon of the
\* other.
GeometriesIntersect(a, b) ==
    LET ea == extractXYsAndLines(a)
        eb == extractXYsAndLines(b)
    IN  \/ \E i \in 1..Len(ea[1]), k \in 1..Len(eb[1]) : ea[1][i] = eb[1][k]
        \/ \E i \in 1..Len(ea[1]), k \in 1..Len(eb[2]) :
               hasIntersectionPointWithLine(Point(ea[1][i]), eb[2][k])
        \/ \E i \in 1..Len(ea[2]), k \in 1..Len(eb[1]) :
               hasIntersectionPointWithLine(Point(eb[1][k]), ea[2][i])
        \/ \E i \in 1..Len(ea[2]), k \in 1..Len(eb[2]) :
               SegmentsSharePoint(ea[2][i], eb[2][k])
        \/ \E v \in VerticesOf(a) :
               \E k \in 1..Len(PolygonsOf(b)) : InsidePolygon(v, PolygonsOf(b)[k])
        \/ \E v \in VerticesOf(b) :
               \E k \in 1..Len(PolygonsOf(a)) : InsidePolygon(v, PolygonsOf(a)[k])

\* C4: for non-empty g1 and g2, distance returns 0 when the geometries
\* intersect and otherwise the least of the part-to-part distances over all
\* pairs of a part of g1 and a part of g2.
C4_DistanceZeroIffIntersect ==
    (pc = "done" /\ ~IsEmpty(g1) /\ ~IsEmpty(g2)) =>
        /\ result.ok = TRUE
        /\ IF GeometriesIntersect(g1, g2) THEN result.dist = Zero
           ELSE \E d \in PairDistances : IsLeast(d) /\ RatEq(result.dist, d)

\* The early stop of C4 taken alone: with Intersects as hasIntersection
\* computes it, distance returns 0 or the least part-to-part distance, so
\* stopping a search when a record's envelope is farther than the best so far
\* skips no closer pair.
EarlyStopSkipsNoCloserPair ==
    (pc = "done" /\ ~IsEmpty(g1) /\ ~IsEmpty(g2)) =>
        /\ result.ok = TRUE
        /\ IF hasIntersection(g1, g2) THEN result.dist = Zero
           ELSE \E d \in PairDistances : IsLeast(d) /\ RatEq(result.dist, d)

\* The search of the last part of g1 was stopped before a record it never
\* visited, and the distance was returned.
EarlyStopTaken ==
    /\ pc = "done"
    /\ result.ok = TRUE
    /\ RatLess(Zero, result.dist)
    /\ \E i \in 1..Len(tr) :
          RatLess(result.dist, EnvelopeDistance(tr[i].Box, PartEnvelope(NumParts)))

\* ------------------------------------------------------------------------
\* Polygon pair study: hasIntersectionPolygonWithPolygon on valid polygons,
\* one of them moved over the other, passed in either order.  Every edge is
\* horizontal, vertical or of slope -1, so two regions that share a point
\* share a point of the integer lattice.
\* ------------------------------------------------------------------------

PairPolygons ==
    <<Polygon(<<Square(0, 0, 6)>>),
      Polygon(<<Square(0, 0, 6), Hole(1, 1, 4)>>),
      Polygon(<<Square(0, 0, 2)>>),
      Polygon(<<<<XY(0, 0), XY(3, 0), XY(0, 3), XY(0, 0)>>>>)>>

InitPolygonPair ==
    /\ pc = "call"
    /\ \E i \in 1..Len(PairPolygons), j \in 1..Len(PairPolygons) :
          \E dx \in 0..MaxPairShift, dy \in 0..MaxPairShift, swap \in BOOLEAN :
              LET p == PairPolygons[i]
                  q == Shift(PairPolygons[j], XY(dx, dy))
              IN  /\ g1 = IF swap THEN q ELSE p
                  /\ g2 = IF swap THEN p ELSE q
    /\ result = Null
    /\ Idle

CallPolygonWithPolygon ==
    /\ pc = "call"
    /\ result' = hasIntersectionPolygonWithPolygon(g1, g2)
    /\ pc' = "done"
    /\ UNCHANGED <<g1, g2, reached, sides, sweepX, minDist, part, visited>>

NextPolygonPair == CallPolygonWithPolygon

SpecPolygonPair == InitPolygonPair /\ [][NextPolygonPair]_vars

\* The two polygons share a point of the lattice that covers both.
Lattice == {XY(x, y) : x \in 0..(MaxPairShift + 6), y \in 0..(MaxPairShift + 6)}
PolygonsSharePoint(p1, p2) ==
    \E xy \in Lattice : InsidePolygon(xy, p1) /\ InsidePolygon(xy, p2)

\* C11: hasIntersectionPolygonWithPolygon is true exactly when the boundaries
\* intersect, or the start point of p1's exterior ring lies in p2, or the start
\* point of p2's exterior ring lies in p1; for valid polygons that is exactly
\* when the polygons share a point.
C11_PolygonWithPolygonIffSharePoint ==
    pc = "done" =>
        /\ result = (\/ BruteForceMLS(PolygonBoundary(g1), PolygonBoundary(g2))
                     \/ InsidePolygon(ExteriorRing(g1)[1], g2)
                     \/ InsidePolygon(ExteriorRing(g2)[1], g1))
        /\ result = PolygonsSharePoint(g1, g2)

\* The second polygon contains the first and their boundaries are apart.
C11_Witness ==
    /\ pc = "done"
    /\ result = TRUE
    /\ ~BruteForceMLS(PolygonBoundary(g1), PolygonBoundary(g2))
    /\ ~InsidePolygon(ExteriorRing(g2)[1], g1)

\* A polygon that lies in the hole of the other: no point is shared.
PolygonInHoleSeen ==
    /\ pc = "done"
    /\ result = FALSE
    /\ Len(g1.rings) > 1
    /\ pointRingSide(ExteriorRing(g2)[1], g1.rings[2]) = interior

\* ------------------------------------------------------------------------
\* Distance in both orders: distance(g1, g2) runs, its result is kept in
\* `reached` (a sequence, empty until then), the operands change places and distance runs again.
\* ------------------------------------------------------------------------

InitDistanceBothWays ==
    /\ pc = "call"
    /\ \E i \in 1..Len(DistanceShapes), j \in 1..Len(DistanceShapes) :
          \E dx \in 0..MaxDistShift, dy \in 0..MaxDistShift :
              /\ g1 = DistanceShapes[i]
              /\ g2 = Shift(DistanceShapes[j], XY(dx + dx, dy))
    /\ result = Null
    /\ reached = <<>>
    /\ sides = Null
    /\ sweepX = Null
    /\ minDist = Null
    /\ part = 0
    /\ visited = {}

DistanceAgain ==
    /\ pc = "done"
    /\ reached = <<>>
    /\ reached' = <<result>>
    /\ g1' = g2
    /\ g2' = g1
    /\ result' = Null
    /\ minDist' = Null
    /\ part' = 0
    /\ visited' = {}
    /\ pc' = "call"
    /\ UNCHANGED <<sides, sweepX>>

NextDistanceBothWays == NextDistance \/ DistanceAgain

SpecDistanceBothWays == InitDistanceBothWays /\ [][NextDistanceBothWays]_vars

\* C12: distance(a, b) and distance(b, a) return the same value and the same
\* ok flag.
C12_DistanceSymmetric ==
    (pc = "done" /\ reached # <<>>) =>
        /\ result.ok = reached[1].ok
        /\ RatEq(result.dist, reached[1].dist)

\* Both orders have run on a pair that is apart, one operand made of points
\* only and the other of lines only.
C12_Witness ==
    /\ pc = "done"
    /\ reached # <<>>
    /\ result.ok = TRUE
    /\ RatLess(Zero, result.dist)
    /\ Len(xys1) > 0 /\ Len(lns1) = 0
    /\ Len(xys2) = 0 /\ Len(lns2) > 0

\* Both orders have run with an empty operand: no distance in either order.
NoDistanceBothWaysSeen ==
    /\ pc = "done"
    /\ reached # <<>>
    /\ result.ok = FALSE
    /\ reached[1].ok = FALSE
    /\ ~IsEmpty(g1)

\* ------------------------------------------------------------------------
\* Convex hull (part_003): grahamScan with sortByPolarAngle.  A scan result
\* is [hull |-> the stack, panicked |-> underTop was read from a stack of one].
\* ------------------------------------------------------------------------

distanceSq(p, q) == Dot(Sub(p, q), Sub(p, q))

\* ltl: the first index of the lowest-then-leftmost point.
ltl(ps) ==
    LET Lower(a, b) == a.Y < b.Y \/ (a.Y = b.Y /\ a.X < b.X)
        least == {i \in 1..Len(ps) : \A j \in 1..Len(ps) : ~Lower(ps[j], ps[i])}
    IN  CHOOSE i \in least : \A j \in least : i <= j

\* The less function handed to sort.Slice, on the points at i and j.
PolarLess(anchor, pi, pj) ==
    IF anchor = pi THEN TRUE
    ELSE IF anchor = pj THEN FALSE
    ELSE orientation(anchor, pi, pj) = leftTurn

\* sort.Slice on fewer than 12 elements: insertion sort of ps[2..], each
\* element moved down while it is less than the one before it.
RECURSIVE SiftDown(_, _)
SiftDown(ps, j) ==
    IF j > 2 /\ PolarLess(ps[1], ps[j], ps[j - 1])
    THEN SiftDown([ps EXCEPT ![j] = ps[j - 1], ![j - 1] = ps[j]], j - 1)
    ELSE ps
RECURSIVE SortFrom(_, _)
SortFrom(ps, i) == IF i > Len(ps) THEN ps ELSE SortFrom(SiftDown(ps, i), i + 1)

sortByPolarAngle(ps) ==
    LET ltlp == ltl(ps)
    IN  SortFrom([ps EXCEPT ![ltlp] = ps[1], ![1] = ps[ltlp]], 3)

\* Lines 113-120: the stack gets the first 2 distinct points; <<stack, i>>.
RECURSIVE FirstTwo(_, _, _)
FirstTwo(stack, ps, i) ==
    IF i <= Len(ps) /\ Len(stack) < 2
    THEN FirstTwo(IF stack[Len(stack)] # ps[i] THEN Append(stack, ps[i]) ELSE stack,
                  ps, i + 1)
    ELSE <<stack, i>>

\* Lines 138-147: one pop, a second pop when the new point is collinear with
\* the two points now on top, then the push.
ScanRightTurn(stack, p) ==
    LET popped == SubSeq(stack, 1, Len(stack) - 1)
        n == Len(popped)
    IN  IF n < 2 THEN [hull |-> popped, panicked |-> TRUE]
        ELSE IF orientation(popped[n - 1], popped[n], p) = collinear
             THEN [hull |-> Append(SubSeq(popped, 1, n - 1), p), panicked |-> FALSE]
             ELSE [hull |-> Append(popped, p), panicked |-> FALSE]

\* Lines 122-151: the scan loop from index i.
RECURSIVE ScanFrom(_, _, _)
ScanFrom(stack, ps, i) ==
    IF i > Len(ps) THEN [hull |-> stack, panicked |-> FALSE]
    ELSE LET n == Len(stack)
             ori == orientation(stack[n - 1], stack[n], ps[i])
         IN  IF ori = leftTurn THEN ScanFrom(Append(stack, ps[i]), ps, i + 1)
             ELSE IF ori = collinear
                  THEN IF distanceSq(stack[n - 1], ps[i]) > distanceSq(stack[n - 1], stack[n])
                       THEN ScanFrom(Append(SubSeq(stack, 1, n - 1), ps[i]), ps, i + 1)
                       ELSE ScanFrom(stack, ps, i + 1)
                  ELSE LET r == ScanRightTurn(stack, ps[i])
                       IN  IF r.panicked THEN r ELSE ScanFrom(r.hull, ps, i + 1)

grahamScan(ps) ==
    IF Len(ps) <= 1 THEN [hull |-> ps, panicked |-> FALSE]
    ELSE LET sorted == sortByPolarAngle(ps)
             closed == Append(sorted, sorted[1])
             st == FirstTwo(<<closed[1]>>, closed, 2)
         IN  IF st[2] > Len(closed) THEN [hull |-> st[1], panicked |-> FALSE]
             ELSE ScanFrom(st[1], closed, st[2])

\* Hull study: grahamScan on every sequence of up to MaxHullPoints points of
\* the grid (0..MaxHullX) x (0..MaxHullY); g1 holds the input as a MultiPoint.
HullGrid == {XY(x, y) : x \in 0..MaxHullX, y \in 0..MaxHullY}

InitHull ==
    /\ pc = "call"
    /\ \E n \in 0..MaxHullPoints :
          \E ps \in [1..n -> HullGrid] : g1 = MultiPoint([i \in 1..n |-> Point(ps[i])])
    /\ g2 = Null
    /\ result = Null
    /\ Idle

CallGrahamScan ==
    /\ pc = "call"
    /\ result' = grahamScan([i \in 1..Len(g1.pts) |-> g1.pts[i].coords])
    /\ pc' = "done"
    /\ UNCHANGED <<g1, g2, reached, sides, sweepX, minDist, part, visited>>

NextHull == CallGrahamScan

SpecHull == InitHull /\ [][NextHull]_vars

\* The input points, and what a convex hull of them is.
HullInput == {g1.pts[i].coords : i \in 1..Len(g1.pts)}
AllCollinear(S) ==
    \A a \in S, b \in S, c \in S : Cross(Sub(b, a), Sub(c, a)) = 0
IsConvexHull(S, h) ==
    IF S = {} THEN h = <<>>
    ELSE IF Cardinality(S) = 1 THEN Len(h) = 1 /\ h[1] \in S
    ELSE IF AllCollinear(S)
         THEN /\ Len(h) = 2
              /\ h[1] # h[2]
              /\ h[1] \in S /\ h[2] \in S
              /\ \A p \in S : Dot(Sub(p, h[1]), Sub(p, h[2])) <= 0
    ELSE /\ Len(h) >= 4
         /\ h[1] = h[Len(h)]
         /\ LET n == Len(h) - 1
                at(k) == h[((k - 1) % n) + 1]
            IN  /\ \A k \in 1..n : orientation(at(k), at(k + 1), at(k + 2)) = leftTurn
                /\ \A k \in 1..n : \A p \in S :
                       Cross(Sub(at(k + 1), at(k)), Sub(p, at(k))) >= 0

\* C13: grahamScan returns the convex hull of its input: no point, one point,
\* two distinct points, or a closed ring that turns one way at every vertex,
\* has no three consecutive collinear vertices and contains every input
\* point, also when one new point discards several pushed points.
C13_GrahamScanIsConvexHull ==
    pc = "done" => (~result.panicked /\ IsConvexHull(HullInput, result.hull))

\* The default case never reads underTop from a stack of one point.
ScanNeverPanics == pc = "done" => ~result.panicked

\* With at most four input points no new point has to discard two pushed
\* points, and the scan returns the convex hull.
HullOfFourIsConvexHull ==
    (pc = "done" /\ Len(g1.pts) <= 4) => IsConvexHull(HullInput, result.hull)

\* A scan that returned a convex ring of five vertices.
RingHullSeen ==
    /\ pc = "done"
    /\ Len(result.hull) = 5
    /\ IsConvexHull(HullInput, result.hull)

\* ------------------------------------------------------------------------
\* R-tree bulk load (rtree/bulk.go).  A BulkItem is [Box, RecordID], a Box
\* is [MinX, MinY, MaxX, MaxY].  A node is [isLeaf, entries]; an entry is
\* [box, recordID, child], child being <<>> in a leaf and <<node>> above.
\* A slice is the sequence of its items: a call that reorders its slice
\* returns the slice, and the caller puts it back where the slice came from.
\* ------------------------------------------------------------------------

minChildren == 2
maxChildren == 4

combine(b1, b2) ==
    [MinX |-> Min2(b1.MinX, b2.MinX), MinY |-> Min2(b1.MinY, b2.MinY),
     MaxX |-> Max2(b1.MaxX, b2.MaxX), MaxY |-> Max2(b1.MaxY, b2.MaxY)]

RECURSIVE CombineAll(_)
CombineAll(boxes) ==
    IF Len(boxes) = 1 THEN boxes[1] ELSE combine(CombineAll(SubSeq(boxes, 1, Len(boxes) - 1)),
                                                 boxes[Len(boxes)])

calculateBound(n) == CombineAll([i \in 1..Len(n.entries) |-> n.entries[i].box])

calculateLevelsOffByOne(numItems) ==
    LET RECURSIVE Grow(_, _)
        Grow(count, levels) ==
            IF count <= numItems THEN Grow(count * maxChildren, levels + 1) ELSE levels
    IN  Grow(maxChildren, 1)

calculateLevels(numItems) ==
    LET RECURSIVE Grow(_, _)
        Grow(count, levels) ==
            IF count < numItems THEN Grow(count * maxChildren, levels + 1) ELSE levels
    IN  Grow(maxChildren, 1)

\* buildBulkItems: [horizontal, items].
buildBulkItems(items) ==
    LET box == CombineAll([i \in 1..Len(items) |-> items[i].Box])
    IN  [horizontal |-> box.MaxX - box.MinX > box.MaxY - box.MinY, items |-> items]

\* bulkItems.Less and bulkItems.Swap, on indexes counted from 0.
Less(b, i, j) ==
    LET bi == b.items[i + 1].Box
        bj == b.items[j + 1].Box
    IN  IF b.horizontal THEN bi.MinX + bi.MaxX < bj.MinX + bj.MaxX
        ELSE bi.MinY + bi.MaxY < bj.MinY + bj.MaxY
Swap(b, i, j) ==
    [b EXCEPT !.items = [b.items EXCEPT ![i + 1] = b.items[j + 1],
                                        ![j + 1] = b.items[i + 1]]]

\* The generator state is a number below 2^32, kept as <<high, low>> halves
\* of 16 bits.  rndState starts at 0 in every quickPartition call.
rndSeedCarried == IF pc = "call" THEN <<0, 0>> ELSE <<1, 0>>
rndSeed == <<0, 0>>

\* rndState = (1664525*rndState + 1013904223) % (1 << 32), with
\* 1664525 = 25 * 2^16 + 26125 and 1013904223 = 15470 * 2^16 + 62303.
NextRnd(s) ==
    LET lo == 26125 * s[2] + 62303
        hi == 25 * s[2] + 26125 * s[1] + 15470 + (lo \div 65536)
    IN  <<hi % 65536, lo % 65536>>
\* rndState % n.
RndMod(s, n) == ((s[1] % n) * (65536 % n) + (s[2] % n)) % n

\* Lines 137-143: <<items, j>> after the pass over left..right.
RECURSIVE PartitionPass(_, _, _, _)
PartitionPass(b, i, j, right) ==
    IF i > right THEN <<b, j>>
    ELSE IF Less(b, i, right) THEN PartitionPass(Swap(b, i, j), i + 1, j + 1, right)
    ELSE PartitionPass(b, i + 1, j, right)

\* Lines 131-159.
RECURSIVE QuickLoop(_, _, _, _, _)
QuickLoop(b, k, left, right, rndState) ==
    LET rs == NextRnd(rndState)
        pivot == left + RndMod(rs, right - left + 1)
        pass == PartitionPass(Swap(b, pivot, right), left, left, right)
        j == pass[2]
        done == Swap(pass[1], right, j)
    IN  IF j - left < k THEN QuickLoop(done, k - (j - left + 1), j + 1, right, rs)
        ELSE IF j - left > k THEN QuickLoop(done, k, left, j - 1, rs)
        ELSE done

\* quickPartition: the items of b after the partial sort.
quickPartition(b, k) == QuickLoop(b, k, 0, Len(b.items) - 1, rndSeed).items

\* A split returns [items |-> the slice as it was left, parts |-> the parts,
\* panicked |-> the length was not one the split handles].
splitBulkItems2WaysUneven(items) ==
    LET split == (Len(items) + 1) \div 2
        sorted == quickPartition(buildBulkItems(items), split)
    IN  [items |-> sorted,
         parts |-> <<SubSeq(sorted, 1, split), SubSeq(sorted, split + 1, Len(sorted))>>,
         panicked |-> FALSE]

splitBulkItems2Ways(items) ==
    LET split == Len(items) \div 2
        sorted == quickPartition(buildBulkItems(items), split)
    IN  [items |-> sorted,
         parts |-> <<SubSeq(sorted, 1, split), SubSeq(sorted, split + 1, Len(sorted))>>,
         panicked |-> FALSE]

splitBulkItems3WaysSkipsOne(items) ==
    IF Len(items) # 6 /\ Len(items) # 7
    THEN [items |-> items, parts |-> <<>>, panicked |-> TRUE]
    ELSE LET bulkItems == buildBulkItems(items)
             first == quickPartition(bulkItems, 2)
             rest == quickPartition([bulkItems EXCEPT !.items = SubSeq(first, 4, Len(first))], 1)
             sorted == SubSeq(first, 1, 3) \o rest
         IN  [items |-> sorted,
              parts |-> <<SubSeq(sorted, 1, 2), SubSeq(sorted, 4, 5),
                          SubSeq(sorted, 5, Len(sorted))>>,
              panicked |-> FALSE]

splitBulkItems3Ways(items) ==
    IF Len(items) # 6 /\ Len(items) # 7
    THEN [items |-> items, parts |-> <<>>, panicked |-> TRUE]
    ELSE LET bulkItems == buildBulkItems(items)
             first == quickPartition(bulkItems, 2)
             rest == quickPartition([bulkItems EXCEPT !.items = SubSeq(first, 4, Len(first))], 1)
             sorted == SubSeq(first, 1, 3) \o rest
         IN  [items |-> sorted,
              parts |-> <<SubSeq(sorted, 1, 2), SubSeq(sorted, 3, 4),
                          SubSeq(sorted, 5, Len(sorted))>>,
              panicked |-> FALSE]

\* Lines 66-75: the 4-way split.
splitBulkItems4Ways(items) ==
    LET halves == splitBulkItems2Ways(items)
        first == splitBulkItems2Ways(halves.parts[1])
        second == splitBulkItems2Ways(halves.parts[2])
    IN  [items |-> first.items \o second.items,
         parts |-> first.parts \o second.parts,
         panicked |-> FALSE]

\* bulkInsert and bulkNode return [node, items, panicked], items being the
\* slice as the call left it.
RECURSIVE bulkInsert(_, _)
RECURSIVE bulkNode(_, _)
bulkNode(levels, split) ==
    LET kids == [i \in 1..Len(split.parts) |-> bulkInsert(split.parts[i], levels - 1)]
    IN  [node |-> [isLeaf |-> FALSE,
                   entries |-> [i \in 1..Len(kids) |->
                                   [box |-> calculateBound(kids[i].node),
                                    recordID |-> 0,
                                    child |-> <<kids[i].node>>]]],
         items |-> IF split.panicked THEN split.items
                   ELSE FlattenSeq([i \in 1..Len(kids) |-> kids[i].items]),
         panicked |-> split.panicked \/ \E i \in 1..Len(kids) : kids[i].panicked]

bulkInsert(items, levels) ==
    IF levels = 1
    THEN [node |-> [isLeaf |-> TRUE,
                    entries |-> [i \in 1..Len(items) |->
                                    [box |-> items[i].Box,
                                     recordID |-> items[i].RecordID,
                                     child |-> <<>>]]],
          items |-> items,
          panicked |-> FALSE]
    ELSE IF Len(items) < 6 THEN bulkNode(levels, splitBulkItems2Ways(items))
    ELSE IF Len(items) < 8 THEN bulkNode(levels, splitBulkItems3Ways(items))
    ELSE bulkNode(levels, splitBulkItems4Ways(items))

\* BulkLoad: [root |-> <<>> or <<the root node>>, items, panicked].
BulkLoad(items) ==
    IF Len(items) = 0 THEN [root |-> <<>>, items |-> items, panicked |-> FALSE]
    ELSE LET r == bulkInsert(items, calculateLevels(Len(items)))
         IN  [root |-> <<r.node>>, items |-> r.items, panicked |-> r.panicked]

\* Bulk study: BulkLoad runs on g1, then once more on an equal input.  Item i
\* of n is the box from (i*a % 7, i*b % 5) that is i % 2 wide; `reached`
\* holds the outcome of the first call once the second has run.
BulkInputs ==
    {[i \in 1..n |-> [Box |-> [MinX |-> (i * a) % 7, MinY |-> (i * b) % 5,
                               MaxX |-> ((i * a) % 7) + (i % 2), MaxY |-> (i * b) % 5],
                      RecordID |-> i]] :
        n \in 0..MaxItems, a \in 0..MaxStride, b \in 0..MaxStride}

InitBulk ==
    /\ pc = "call"
    /\ g1 \in BulkInputs
    /\ g2 = Null
    /\ result = Null
    /\ reached = <<>>
    /\ sides = Null
    /\ sweepX = Null
    /\ minDist = Null
    /\ part = 0
    /\ visited = {}

CallBulkLoad ==
    /\ pc = "call"
    /\ result' = BulkLoad(g1)
    /\ pc' = "done"
    /\ UNCHANGED <<g1, g2, reached, sides, sweepX, minDist, part, visited>>

CallBulkLoadAgain ==
    /\ pc = "done"
    /\ reached' = <<result>>
    /\ result' = BulkLoad(g1)
    /\ pc' = "again"
    /\ UNCHANGED <<g1, g2, sides, sweepX, minDist, part, visited>>

NextBulk == CallBulkLoad \/ CallBulkLoadAgain

SpecBulk == InitBulk /\ [][NextBulk]_vars

\* The nodes of a tree, root first, and the number of items under a node.
RECURSIVE NodesOf(_)
NodesOf(n) ==
    IF n.isLeaf THEN <<n>>
    ELSE <<n>> \o FlattenSeq([i \in 1..Len(n.entries) |-> NodesOf(n.entries[i].child[1])])
RECURSIVE ItemsUnder(_)
ItemsUnder(n) ==
    IF n.isLeaf THEN Len(n.entries)
    ELSE LET RECURSIVE Sum(_)
             Sum(i) == IF i = 0 THEN 0 ELSE Sum(i - 1) + ItemsUnder(n.entries[i].child[1])
         IN  Sum(Len(n.entries))
TreeNodes == IF result.root = <<>> THEN <<>> ELSE NodesOf(result.root[1])

\* C14: for N >= 2 items every node of the tree BulkLoad returns holds at
\* least 2 and at most 4 entries, for N <= 4 the tree is one leaf holding all
\* N items, and no leaf is built from more than 4 items.
C14_NodesHoldTwoToFourEntries ==
    (pc = "done" /\ Len(g1) >= 2) =>
        /\ \A k \in 1..Len(TreeNodes) :
              /\ Len(TreeNodes[k].entries) >= minChildren
              /\ Len(TreeNodes[k].entries) <= maxChildren
        /\ Len(g1) <= 4 =>
              (Len(TreeNodes) = 1 /\ TreeNodes[1].isLeaf /\ Len(TreeNodes[1].entries) = Len(g1))

\* A tree of three levels: the root's first child is not a leaf.
C14_Witness ==
    /\ pc = "done"
    /\ Len(g1) > 16
    /\ ~result.root[1].isLeaf
    /\ ~result.root[1].entries[1].child[1].isLeaf

\* The sizes of the parts a group of n items is split into.
SplitSizes(n) ==
    IF n < 6 THEN <<n \div 2, n - (n \div 2)>>
    ELSE IF n < 8 THEN <<2, 2, n - 4>>
    ELSE LET h == n \div 2
         IN  <<h \div 2, h - (h \div 2), (n - h) \div 2, (n - h) - ((n - h) \div 2)>>

\* C15: a group of N items above the leaves is split into 2 parts of sizes
\* floor(N/2) and N - floor(N/2) when N < 6, into 3 parts of sizes 2, 2 and
\* N - 4 when N is 6 or 7, and into 4 parts (each half halved) when N >= 8;
\* splitBulkItems3Ways is never given another length, so it never panics.
C15_SplitSizesByGroupSize ==
    pc = "done" =>
        /\ ~result.panicked
        /\ \A k \in 1..Len(TreeNodes) :
              LET n == TreeNodes[k]
              IN  ~n.isLeaf =>
                      [i \in 1..Len(n.entries) |-> ItemsUnder(n.entries[i].child[1])]
                          = SplitSizes(ItemsUnder(n))

\* A group of 7 items was split 3 ways, into 2, 2 and 3.
C15_Witness ==
    /\ pc = "done"
    /\ Len(g1) = 7
    /\ Len(result.root[1].entries) = 3
    /\ Len(result.root[1].entries[3].child[1].entries) = 3

C17_BulkLoadLeavesItemsInPlace ==
    pc = "done" => result.items = g1

\* BulkLoad only reorders the slice: every item is still in it, once.
BulkLoadKeepsTheItems ==
    pc = "done" =>
        /\ Len(result.items) = Len(g1)
        /\ \A i \in 1..Len(g1) : \E k \in 1..Len(g1) : result.items[k] = g1[i]

\* ------------------------------------------------------------------------
\* Doubly connected edge list (part_001).  Pointers are indexes: a half-edge
\* is named by its place in dcel.halfEdges (0 is nil), a vertex by its XY.
\* A dcel is [halfEdges, vertices, panicked]; vertices maps the XYs that have
\* a vertex to [coords, incidents, label, locLabel].  A label is the set of
\* its bits, so & is \cap and | is \cup.
\* ------------------------------------------------------------------------

populatedMask == {"populatedA", "populatedB"}
locBoundary == {"boundaryA", "boundaryB"}
locInterior == {"interiorA", "interiorB"}
inputAMask == {"inSetA", "populatedA", "boundaryA", "interiorA"}

reverseXYs(xys) == [i \in 1..Len(xys) |-> xys[Len(xys) + 1 - i]]

\* ForceCCW: exterior rings counter-clockwise, interior rings clockwise.
ForceCCW(mp) ==
    LET RECURSIVE Area2(_, _)
        Area2(ring, i) ==
            IF i >= Len(ring) THEN 0 ELSE Cross(ring[i], ring[i + 1]) + Area2(ring, i + 1)
        Turned(ring, ccw) ==
            IF (Area2(ring, 1) > 0) = ccw \/ Area2(ring, 1) = 0 THEN ring ELSE reverseXYs(ring)
    IN  MultiPolygon([p \in 1..Len(mp.polys) |->
            Polygon([r \in 1..Len(mp.polys[p].rings) |->
                        Turned(mp.polys[p].rings[r], r = 1)])])

\* secondXY, of the half-edge at index e of the dcel d.
secondXY(d, e) ==
    IF Len(d.halfEdges[e].intermediate) = 0
    THEN d.halfEdges[d.halfEdges[e].twin].origin
    ELSE d.halfEdges[e].intermediate[1]

\* forEachNonInteractingSegment: the segments handed to fn, in order.  When
\* no interaction point follows i, end stays 0 and the segment built from it
\* cannot be sliced by fn: the run panics, shown here as a last segment <<>>.
RECURSIVE forEachNonInteractingSegment(_, _, _)
forEachNonInteractingSegment(seq, interactions, i) ==
    IF i >= Len(seq) THEN <<>>
    ELSE LET js == {j \in (i + 1)..Len(seq) : seq[j] \in interactions}
         IN  IF js = {} THEN <<<<>>>>
             ELSE LET end == CHOOSE j \in js : \A m \in js : j <= m
                  IN  <<SubSeq(seq, i, end)>>
                      \o forEachNonInteractingSegment(seq, interactions, end)

\* A segment fn cannot work on: the marker above, or one whose first or last
\* XY has no vertex (a nil vertexRecord is dereferenced).
Unusable(d, segs) ==
    \E s \in 1..Len(segs) :
        \/ segs[s] = <<>>
        \/ segs[s][1] \notin DOMAIN d.vertices
        \/ segs[s][Len(segs[s])] \notin DOMAIN d.vertices

\* The vertices with the new half-edges base+1.. appended to the incidents
\* of their origins, in the order the half-edges were made.
WithIncidents(vertices, newEdges, base) ==
    [xy \in DOMAIN vertices |->
        [vertices[xy] EXCEPT !.incidents =
            @ \o [k \in 1..Cardinality({m \in 1..Len(newEdges) : newEdges[m].origin = xy}) |->
                    base + (CHOOSE m \in 1..Len(newEdges) :
                              /\ newEdges[m].origin = xy
                              /\ Cardinality({o \in 1..m : newEdges[o].origin = xy}) = k)]]]

\* As PopulateVertices, but with a vertex for every ring XY.
PopulateEveryXY(vertices, rings, interactions, label, locLabel) ==
    [xy \in DOMAIN vertices
            \cup UNION {{rings[r][i] : i \in 1..Len(rings[r])} : r \in 1..Len(rings)} |->
        IF xy \in DOMAIN vertices THEN vertices[xy]
        ELSE [coords |-> xy, incidents |-> <<>>, label |-> label, locLabel |-> locLabel]]

\* Lines 117-128: the ring XYs in interactions that have no vertex yet get one.
PopulateVertices(vertices, rings, interactions, label, locLabel) ==
    LET xys == UNION {{rings[r][i] : i \in 1..Len(rings[r])} : r \in 1..Len(rings)} \cap interactions
    IN  [xy \in DOMAIN vertices \cup xys |->
            IF xy \in DOMAIN vertices THEN vertices[xy]
            ELSE [coords |-> xy, incidents |-> <<>>, label |-> label, locLabel |-> locLabel]]

\* Lines 168-173, on indexes counted from 0: where next and prev of newEdges[m]
\* point.  RingLinkForwardOnly links the external edges forward as well.
RingLinkForwardOnly(m, numEdges) ==
    [next |-> (m + 2) % numEdges, prev |-> (m - 2 + numEdges) % numEdges]

RingLink(m, numEdges) ==
    LET i == m \div 2
    IN  IF m % 2 = 0
        THEN [next |-> (2 * i + 2) % numEdges, prev |-> (2 * i - 2 + numEdges) % numEdges]
        ELSE [next |-> (2 * i - 1 + numEdges) % numEdges, prev |-> (2 * i + 3) % numEdges]

\* Lines 130-175: the half-edge pairs of one ring, linked and appended.
RingEdges(d, ring, mask, interactions) ==
    LET segs == forEachNonInteractingSegment(ring, interactions, 1)
        base == Len(d.halfEdges)
        numEdges == 2 * Len(segs)
        newEdges ==
            [n \in 1..numEdges |->
                LET m == n - 1
                    seg == segs[(m \div 2) + 1]
                    intermediateFwd == SubSeq(seg, 2, Len(seg) - 1)
                    internal == m % 2 = 0
                IN  [origin |-> IF internal THEN seg[1] ELSE seg[Len(seg)],
                     twin |-> IF internal THEN base + n + 1 ELSE base + n - 1,
                     next |-> base + 1 + RingLink(m, numEdges).next,
                     prev |-> base + 1 + RingLink(m, numEdges).prev,
                     intermediate |-> IF internal THEN intermediateFwd
                                      ELSE reverseXYs(intermediateFwd),
                     edgeLabel |-> mask,
                     faceLabel |-> IF internal THEN mask ELSE mask \cap populatedMask]]
    IN  IF d.panicked \/ Unusable(d, segs) THEN [d EXCEPT !.panicked = TRUE]
        ELSE [d EXCEPT !.halfEdges = @ \o newEdges,
                       !.vertices = WithIncidents(@, newEdges, base)]

newDCELFromMultiPolygon(mp0, mask, interactions) ==
    LET mp == ForceCCW(mp0)
        RECURSIVE Rings(_, _, _)
        Rings(d, rings, r) ==
            IF r > Len(rings) THEN d
            ELSE Rings(RingEdges(d, rings[r], mask, interactions), rings, r + 1)
        RECURSIVE Polys(_, _)
        Polys(d, p) ==
            IF p > Len(mp.polys) THEN d
            ELSE Polys(Rings([d EXCEPT !.vertices =
                                 PopulateVertices(@, mp.polys[p].rings, interactions,
                                                  mask, mask \cap locBoundary)],
                             mp.polys[p].rings, 1),
                       p + 1)
    IN  Polys([halfEdges |-> <<>>, vertices |-> <<>>, panicked |-> FALSE], 1)

\* edgeSet.containsStartIntermediateEnd, for the set that holds every
\* half-edge of d: addGhosts fills it from d.halfEdges and every pair made
\* afterwards is inserted in both directions.
containsStartIntermediateEnd(d, startXY, intermediate, endXY) ==
    \E e \in 1..Len(d.halfEdges) :
        /\ d.halfEdges[e].origin = startXY
        /\ d.halfEdges[e].intermediate = intermediate
        /\ d.halfEdges[d.halfEdges[e].twin].origin = endXY

\* As AppendPair, but with the forward half-edge alone.
AppendPairForwardOnly(d, startXY, intermediateFwd, endXY, edgeLabel, faceLabel) ==
    LET base == Len(d.halfEdges)
        fwd == [origin |-> startXY, twin |-> base + 1, next |-> base + 1, prev |-> base + 1,
                intermediate |-> intermediateFwd,
                edgeLabel |-> edgeLabel, faceLabel |-> faceLabel]
    IN  [d EXCEPT !.halfEdges = @ \o <<fwd>>,
                  !.vertices = WithIncidents(@, <<fwd>>, base)]

\* Lines 230-257 and 327-354: a pair of half-edges that are each other's
\* twin, next and prev, appended to their origins' incidents and to halfEdges.
AppendPair(d, startXY, intermediateFwd, endXY, edgeLabel, faceLabel) ==
    LET base == Len(d.halfEdges)
        fwd == [origin |-> startXY, twin |-> base + 2, next |-> base + 2, prev |-> base + 2,
                intermediate |-> intermediateFwd,
                edgeLabel |-> edgeLabel, faceLabel |-> faceLabel]
        rev == [origin |-> endXY, twin |-> base + 1, next |-> base + 1, prev |-> base + 1,
                intermediate |-> reverseXYs(intermediateFwd),
                edgeLabel |-> edgeLabel, faceLabel |-> faceLabel]
    IN  [d EXCEPT !.halfEdges = @ \o <<fwd, rev>>,
                  !.vertices = WithIncidents(@, <<fwd, rev>>, base)]

IsClosed(seq) == Len(seq) > 0 /\ seq[1] = seq[Len(seq)]

newDCELFromMultiLineString(mls, mask, interactions) ==
    LET lines == [i \in 1..Len(mls.lines) |-> mls.lines[i].pts]
        Occ == UNION {{<<i, j>> : j \in {k \in 1..Len(lines[i]) : lines[i][k] \in interactions}} :
                        i \in 1..Len(lines)}
        loc(o) == IF (o[2] = 1 \/ o[2] = Len(lines[o[1]])) /\ ~IsClosed(lines[o[1]])
                  THEN locBoundary ELSE locInterior
        vertices ==
            [xy \in {lines[o[1]][o[2]] : o \in Occ} |->
                [coords |-> xy, incidents |-> <<>>, label |-> mask,
                 locLabel |-> UNION {mask \cap loc(o) : o \in {q \in Occ : lines[q[1]][q[2]] = xy}}]]
        RECURSIVE Segs(_, _, _)
        Segs(d, segs, s) ==
            IF s > Len(segs) \/ d.panicked THEN d
            ELSE LET seg == segs[s]
                     intermediateFwd == SubSeq(seg, 2, Len(seg) - 1)
                 IN  IF Unusable(d, <<seg>>) THEN [d EXCEPT !.panicked = TRUE]
                     ELSE IF containsStartIntermediateEnd(d, seg[1], intermediateFwd, seg[Len(seg)])
                     THEN Segs(d, segs, s + 1)
                     ELSE Segs(AppendPair(d, seg[1], intermediateFwd, seg[Len(seg)],
                                          mask, mask \cap populatedMask),
                               segs, s + 1)
        RECURSIVE Lines(_, _)
        Lines(d, i) ==
            IF i > Len(lines) THEN d
            ELSE Lines(Segs(d, forEachNonInteractingSegment(lines[i], interactions, 1), 1), i + 1)
    IN  Lines([halfEdges |-> <<>>, vertices |-> vertices, panicked |-> FALSE], 1)

\* fixVertex: the outgoing half-edges of the vertex are sorted by bearing
\* (half-plane, then cross product), and next and prev are relinked so that
\* the twin of each outgoing edge is followed by the next outgoing edge
\* clockwise.
fixVertex(d, xy) ==
    LET Half(w) == IF w.Y > 0 \/ (w.Y = 0 /\ w.X > 0) THEN 0 ELSE 1
        Bearing(e) == Sub(secondXY(d, e), xy)
        Before(e, f) ==
            \/ Half(Bearing(e)) < Half(Bearing(f))
            \/ Half(Bearing(e)) = Half(Bearing(f)) /\ Cross(Bearing(e), Bearing(f)) > 0
        inc == d.vertices[xy].incidents
        n == Len(inc)
        Rank(k) == Cardinality({m \in 1..n : Before(inc[m], inc[k])
                                               \/ (~Before(inc[k], inc[m]) /\ m < k)})
        sorted == [r \in 1..n |-> inc[CHOOSE k \in 1..n : Rank(k) = r - 1]]
        Place(e) == CHOOSE r \in 1..n : sorted[r] = e
        Outgoing == {sorted[r] : r \in 1..n}
        Incoming == {d.halfEdges[sorted[r]].twin : r \in 1..n}
    IN  [d EXCEPT
            !.vertices[xy].incidents = sorted,
            !.halfEdges = [e \in 1..Len(d.halfEdges) |->
                [d.halfEdges[e] EXCEPT
                    !.prev = IF e \in Outgoing
                             THEN d.halfEdges[sorted[(Place(e) % n) + 1]].twin
                             ELSE @,
                    !.next = IF e \in Incoming
                             THEN LET r == Place(d.halfEdges[e].twin)
                                  IN  sorted[((r + n - 2) % n) + 1]
                             ELSE @]]]

addGhostLine(d, startXY, intermediateFwd, endXY, mask) ==
    fixVertex(fixVertex(AppendPair(d, startXY, intermediateFwd, endXY,
                                   mask \cap populatedMask, {}),
                        startXY),
              endXY)

\* The segments of the ghost linestrings, in the order addGhosts visits them.
RECURSIVE GhostSegments(_, _, _)
GhostSegments(mls, interactions, i) ==
    IF i > Len(mls.lines) THEN <<>>
    ELSE forEachNonInteractingSegment(mls.lines[i].pts, interactions, 1)
         \o GhostSegments(mls, interactions, i + 1)

\* As GhostSegment, but without the look-up in the edge set.
GhostSegmentAlwaysAdded(d, seg, mask) ==
    IF d.panicked \/ seg = <<>> THEN [d EXCEPT !.panicked = TRUE]
    ELSE LET ghost(xy) == [coords |-> xy, incidents |-> <<>>, label |-> {}, locLabel |-> {}]
         IN  addGhostLine([d EXCEPT !.vertices =
                              [xy \in DOMAIN d.vertices \cup {seg[1], seg[Len(seg)]} |->
                                  IF xy \in DOMAIN d.vertices THEN d.vertices[xy] ELSE ghost(xy)]],
                          seg[1], SubSeq(seg, 2, Len(seg) - 1), seg[Len(seg)], mask)

\* Lines 298-319: what addGhosts does with one segment.
GhostSegment(d, seg, mask) ==
    IF d.panicked \/ seg = <<>> THEN [d EXCEPT !.panicked = TRUE]
    ELSE LET startXY == seg[1]
             endXY == seg[Len(seg)]
             intermediateFwd == SubSeq(seg, 2, Len(seg) - 1)
             ghost(xy) == [coords |-> xy, incidents |-> <<>>, label |-> {}, locLabel |-> {}]
             d1 == [d EXCEPT !.vertices =
                        [xy \in DOMAIN d.vertices \cup {startXY, endXY} |->
                            IF xy \in DOMAIN d.vertices THEN d.vertices[xy] ELSE ghost(xy)]]
         IN  IF containsStartIntermediateEnd(d1, startXY, intermediateFwd, endXY) THEN d1
             ELSE addGhostLine(d1, startXY, intermediateFwd, endXY, mask)

\* ------------------------------------------------------------------------
\* Building a DCEL.  g1 is the geometry, g2 the other arguments of
\* newDCELFromGeometry ([ghosts, mask, interactions]), result the dcel, and
\* part the number of ghost segments addGhosts has been through.  The
\* interactions hold every end point of every ring and linestring (they are
\* computed that way) and up to MaxInteractions of the other XYs.
\* ------------------------------------------------------------------------

DCELGeometries ==
    <<Polygon(<<Square(0, 0, 2)>>),
      Polygon(<<Hole(0, 0, 2)>>),
      Polygon(<<Square(0, 0, 4), Hole(1, 1, 2)>>),
      MultiPolygon(<<Polygon(<<Square(0, 0, 2)>>), Polygon(<<Square(2, 2, 2)>>)>>),
      LineString(<<XY(0, 0), XY(1, 0), XY(2, 0), XY(2, 2)>>),
      LineString(<<XY(0, 0), XY(2, 0), XY(2, 2), XY(0, 0)>>),
      MultiLineString(<<LineString(<<XY(0, 0), XY(2, 0), XY(2, 2)>>),
                        LineString(<<XY(2, 2), XY(2, 0), XY(0, 0), XY(0, 2)>>)>>)>>

GhostLines ==
    <<LineString(<<XY(0, 0), XY(5, 1)>>),
      LineString(<<XY(5, 1), XY(2, 2), XY(0, 4)>>),
      LineString(<<XY(0, 0), XY(2, 0)>>),
      LineString(<<XY(2, 2), XY(1, 1), XY(0, 0)>>),
      LineString(<<XY(0, 0), XY(1, 1), XY(2, 2)>>),
      LineString(<<XY(2, 0), XY(0, 0)>>)>>

\* The sequences of XYs of a geometry: its rings or its linestrings.
SequencesOf(g) ==
    CASE g.type = "Polygon" -> g.rings
      [] g.type = "MultiPolygon" -> FlattenSeq([p \in 1..Len(g.polys) |-> g.polys[p].rings])
      [] g.type = "LineString" -> <<g.pts>>
      [] g.type = "MultiLineString" -> [i \in 1..Len(g.lines) |-> g.lines[i].pts]

InitDCEL ==
    /\ pc = "call"
    /\ \E i \in 1..Len(DCELGeometries), n \in 0..MaxGhosts, o \in 0..(Len(GhostLines) - 1) :
        LET ghosts == MultiLineString([k \in 1..n |-> GhostLines[((o + k - 1) % Len(GhostLines)) + 1]])
            seqs == SequencesOf(DCELGeometries[i]) \o SequencesOf(ghosts)
            ends == {seqs[s][1] : s \in 1..Len(seqs)} \cup {seqs[s][Len(seqs[s])] : s \in 1..Len(seqs)}
            others == UNION {{seqs[s][k] : k \in 1..Len(seqs[s])} : s \in 1..Len(seqs)} \ ends
        IN  /\ g1 = DCELGeometries[i]
            /\ \E extra \in SUBSET others :
                /\ Cardinality(extra) <= MaxInteractions
                /\ g2 = [ghosts |-> ghosts, mask |-> inputAMask, interactions |-> ends \cup extra]
    /\ result = Null
    /\ Idle

\* newDCELFromGeometry up to the call of addGhosts.
CallNewDCELFromMultiPolygon ==
    /\ pc = "call"
    /\ g1.type \in {"Polygon", "MultiPolygon"}
    /\ result' = newDCELFromMultiPolygon(IF g1.type = "Polygon" THEN AsMultiPolygon(g1) ELSE g1,
                                         g2.mask, g2.interactions)
    /\ pc' = "ghosts"
    /\ UNCHANGED <<g1, g2, reached, sides, sweepX, minDist, part, visited>>

CallNewDCELFromMultiLineString ==
    /\ pc = "call"
    /\ g1.type \in {"LineString", "MultiLineString"}
    /\ result' = newDCELFromMultiLineString(IF g1.type = "LineString" THEN AsMultiLineString(g1) ELSE g1,
                                            g2.mask, g2.interactions)
    /\ pc' = "ghosts"
    /\ UNCHANGED <<g1, g2, reached, sides, sweepX, minDist, part, visited>>

\* addGhosts: one call of its callback.
AddGhost ==
    /\ pc = "ghosts"
    /\ part < Len(GhostSegments(g2.ghosts, g2.interactions, 1))
    /\ result' = GhostSegment(result, GhostSegments(g2.ghosts, g2.interactions, 1)[part + 1], g2.mask)
    /\ part' = part + 1
    /\ UNCHANGED <<pc, g1, g2, reached, sides, sweepX, minDist, visited>>

ReturnDCEL ==
    /\ pc = "ghosts"
    /\ part = Len(GhostSegments(g2.ghosts, g2.interactions, 1))
    /\ pc' = "done"
    /\ UNCHANGED <<g1, g2, result, reached, sides, sweepX, minDist, part, visited>>

NextDCEL ==
    \/ CallNewDCELFromMultiPolygon
    \/ CallNewDCELFromMultiLineString
    \/ AddGhost
    \/ ReturnDCEL

SpecDCEL == InitDCEL /\ [][NextDCEL]_vars

\* C18: in every dcel built by newDCELFromMultiPolygon or
\* newDCELFromMultiLineString and after every addGhostLine, each half-edge
\* has a twin that is another half-edge whose twin it is, the half-edges are
\* appended in twin pairs (their count is even, the pair is 2i-1, 2i), and
\* each half-edge is exactly once in the incidents of its origin.
TwinsAndIncidents(d) ==
    /\ ~d.panicked
    /\ Len(d.halfEdges) % 2 = 0
    /\ \A e \in 1..Len(d.halfEdges) :
        LET he == d.halfEdges[e]
        IN  /\ he.twin \in 1..Len(d.halfEdges)
            /\ he.twin # e
            /\ d.halfEdges[he.twin].twin = e
            /\ he.twin = IF e % 2 = 1 THEN e + 1 ELSE e - 1
            /\ he.origin \in DOMAIN d.vertices
            /\ Cardinality({k \in 1..Len(d.vertices[he.origin].incidents) :
                              d.vertices[he.origin].incidents[k] = e}) = 1

C18_TwinPairsAndIncidents ==
    pc \in {"ghosts", "done"} => TwinsAndIncidents(result)

\* A dcel of a polygon with a hole after two ghost lines were added to it.
C18_Witness ==
    /\ pc = "done"
    /\ g1.type = "Polygon"
    /\ Len(g1.rings) = 2
    /\ Len(result.halfEdges) >= 8
    /\ \E e \in 1..Len(result.halfEdges) :
        /\ result.halfEdges[e].faceLabel = {}
        /\ Len(result.vertices[result.halfEdges[e].origin].incidents) >= 3
    /\ TwinsAndIncidents(result)

\* A ghost that is already an edge adds nothing.
DuplicateGhostSeen ==
    /\ pc = "done"
    /\ Len(g2.ghosts.lines) > 0
    /\ \A e \in 1..Len(result.halfEdges) : result.halfEdges[e].faceLabel # {}


\* The rings newDCELFromMultiPolygon goes through, in its order, and the
\* places of a ring after the first whose XY is in interactions.
RingsProcessed ==
    SequencesOf(ForceCCW(IF g1.type = "Polygon" THEN AsMultiPolygon(g1) ELSE g1))

Stops(ring) == {j \in 2..Len(ring) : ring[j] \in g2.interactions}

\* The number of half-edges made for the rings before ring r.
RECURSIVE RingBase(_)
RingBase(r) ==
    IF r <= 1 THEN 0 ELSE RingBase(r - 1) + 2 * Cardinality(Stops(RingsProcessed[r - 1]))

JustBuiltFromMultiPolygon ==
    /\ pc = "ghosts"
    /\ part = 0
    /\ g1.type \in {"Polygon", "MultiPolygon"}

\* C19: for every ring that newDCELFromMultiPolygon turned into k >= 1
\* half-edge pairs, next and prev are inverse to each other on the ring's 2k
\* half-edges, the internal (even) edges are linked i -> i+2 mod 2k, the
\* external (odd) edges i -> i-2 mod 2k, and the origin of e.next is the
\* origin of e.twin for each of them.
C19_RingNextPrevCycles ==
    JustBuiltFromMultiPolygon =>
        \A r \in 1..Len(RingsProcessed) :
            LET numEdges == 2 * Cardinality(Stops(RingsProcessed[r]))
                base == RingBase(r)
                he(i) == result.halfEdges[base + 1 + i]
            IN  /\ base + numEdges <= Len(result.halfEdges)
                /\ \A i \in 0..(numEdges - 1) :
                    /\ he(i).next \in (base + 1)..(base + numEdges)
                    /\ he(i).prev \in (base + 1)..(base + numEdges)
                    /\ result.halfEdges[he(i).next].prev = base + 1 + i
                    /\ result.halfEdges[he(i).prev].next = base + 1 + i
                    /\ he(i).next = base + 1 + (IF i % 2 = 0 THEN (i + 2) % numEdges
                                                ELSE (i - 2 + numEdges) % numEdges)
                    /\ result.halfEdges[he(i).next].origin = result.halfEdges[he(i).twin].origin

\* A polygon with a hole, one ring cut into three or more pairs and the
\* other into one.
C19_Witness ==
    /\ JustBuiltFromMultiPolygon
    /\ Len(RingsProcessed) = 2
    /\ Cardinality(Stops(RingsProcessed[1])) >= 3
    /\ Cardinality(Stops(RingsProcessed[2])) = 1
    /\ Len(result.halfEdges) = RingBase(3)
    /\ result.halfEdges[RingBase(2) + 1].next = RingBase(2) + 1
    /\ result.halfEdges[2].next = RingBase(2)

\* C20: in the dcel newDCELFromMultiPolygon returns, the vertices are the
\* ring XYs that are in interactions, one each, and each ring has one pair
\* of half-edges for every two consecutive interaction points, the forward
\* one holding the XYs in between in ring order and its twin the same XYs
\* reversed.
C20_VerticesAndPairsFromInteractions ==
    JustBuiltFromMultiPolygon =>
        /\ ~result.panicked
        /\ DOMAIN result.vertices =
              UNION {{RingsProcessed[r][i] : i \in 1..Len(RingsProcessed[r])} :
                        r \in 1..Len(RingsProcessed)} \cap g2.interactions
        /\ \A xy \in DOMAIN result.vertices : result.vertices[xy].coords = xy
        /\ Len(result.halfEdges) = RingBase(Len(RingsProcessed) + 1)
        /\ \A r \in 1..Len(RingsProcessed) :
            LET ring == RingsProcessed[r]
                at == {1} \cup Stops(ring)
            IN  \A a \in at, b \in at :
                    (a < b /\ \A c \in at : ~(a < c /\ c < b)) =>
                        LET e == RingBase(r) + 2 * Cardinality({c \in at : c < a}) + 1
                            fwd == result.halfEdges[e]
                            rev == result.halfEdges[fwd.twin]
                            skipped == SubSeq(ring, a + 1, b - 1)
                        IN  /\ fwd.twin = e + 1
                            /\ fwd.origin = ring[a]
                            /\ rev.origin = ring[b]
                            /\ fwd.intermediate = skipped
                            /\ Len(rev.intermediate) = Len(skipped)
                            /\ \A k \in 1..Len(skipped) :
                                rev.intermediate[k] = skipped[Len(skipped) + 1 - k]

\* Two polygons that share a corner: the shared XY is one vertex with four
\* outgoing half-edges, and some pair skips two XYs or more.
C20_Witness ==
    /\ JustBuiltFromMultiPolygon
    /\ g1.type = "MultiPolygon"
    /\ \E xy \in DOMAIN result.vertices : Len(result.vertices[xy].incidents) = 4
    /\ \E e \in 1..Len(result.halfEdges) :
        /\ Len(result.halfEdges[e].intermediate) >= 2
        /\ result.halfEdges[result.halfEdges[e].twin].intermediate
              # result.halfEdges[e].intermediate
    /\ \E r \in 1..Len(RingsProcessed) :
        \E i \in 1..Len(RingsProcessed[r]) : RingsProcessed[r][i] \notin DOMAIN result.vertices

\* A clockwise exterior ring is turned before it is cut.
ClockwiseRingSeen ==
    /\ JustBuiltFromMultiPolygon
    /\ RingsProcessed # SequencesOf(IF g1.type = "Polygon" THEN AsMultiPolygon(g1) ELSE g1)
    /\ Len(result.halfEdges) >= 4


\* ------------------------------------------------------------------------
\* Ghost segments that are already edges, and the labels of ghosts.
\* ------------------------------------------------------------------------

\* The segment addGhosts works on next, and the half-edges of d that run
\* over the XYs of a segment from its first to its last.
GhostSegmentAt(k) == GhostSegments(g2.ghosts, g2.interactions, 1)[k]

EdgesAlong(d, seg) ==
    {e \in 1..Len(d.halfEdges) :
        <<d.halfEdges[e].origin>> \o d.halfEdges[e].intermediate
            \o <<d.halfEdges[d.halfEdges[e].twin].origin>> = seg}

\* The half-edges addGhostLine made: no other half-edge has an empty face label.
GhostEdges(d) == {e \in 1..Len(d.halfEdges) : d.halfEdges[e].faceLabel = {}}

\* C21: a ghost segment whose start, intermediate XYs and end are those of
\* an edge the dcel already has, in either direction, be it an edge of the
\* geometry or a ghost added before it, changes nothing: halfEdges, vertices,
\* incidents, next and prev stay as they are.
C21_DuplicateGhostIsNoOp ==
    [][(/\ pc = "ghosts"
        /\ part' = part + 1
        /\ \/ EdgesAlong(result, GhostSegmentAt(part + 1)) # {}
           \/ EdgesAlong(result, reverseXYs(GhostSegmentAt(part + 1))) # {})
       => result' = result]_vars

\* Two ghost segments, the second the reverse of the first: one pair was added.
C21_Witness ==
    /\ pc = "done"
    /\ part = 2
    /\ GhostSegmentAt(2) = reverseXYs(GhostSegmentAt(1))
    /\ Len(GhostSegmentAt(1)) = 3
    /\ Cardinality(GhostEdges(result)) = 2
    /\ Cardinality(EdgesAlong(result, GhostSegmentAt(2))) = 1

\* A ghost segment that runs against an edge of the geometry adds nothing.
GhostAgainstRingEdgeSeen ==
    /\ pc = "done"
    /\ part = 1
    /\ g1.type = "Polygon"
    /\ GhostSegmentAt(1) = <<XY(2, 0), XY(0, 0)>>
    /\ GhostEdges(result) = {}
    /\ \E e \in EdgesAlong(result, GhostSegmentAt(1)) : e % 2 = 0


\* The dcel as newDCELFromGeometry has it when it calls addGhosts.
BeforeGhosts ==
    IF g1.type \in {"Polygon", "MultiPolygon"}
    THEN newDCELFromMultiPolygon(IF g1.type = "Polygon" THEN AsMultiPolygon(g1) ELSE g1,
                                 g2.mask, g2.interactions)
    ELSE newDCELFromMultiLineString(IF g1.type = "LineString" THEN AsMultiLineString(g1) ELSE g1,
                                    g2.mask, g2.interactions)

\* The vertices addGhosts introduced have no label, and the vertices and
\* half-edges that were there before have the labels they had.
GhostVerticesUnlabelled ==
    pc \in {"ghosts", "done"} =>
        /\ \A xy \in DOMAIN result.vertices \ DOMAIN BeforeGhosts.vertices :
            result.vertices[xy].label = {} /\ result.vertices[xy].locLabel = {}
        /\ \A xy \in DOMAIN BeforeGhosts.vertices :
            /\ xy \in DOMAIN result.vertices
            /\ result.vertices[xy].label = BeforeGhosts.vertices[xy].label
            /\ result.vertices[xy].locLabel = BeforeGhosts.vertices[xy].locLabel
        /\ \A e \in 1..Len(BeforeGhosts.halfEdges) :
            /\ result.halfEdges[e].edgeLabel = BeforeGhosts.halfEdges[e].edgeLabel
            /\ result.halfEdges[e].faceLabel = BeforeGhosts.halfEdges[e].faceLabel

\* The half-edges addGhostLine made have an empty face label, and no
\* location bit and no in-set bit in their edge label.
GhostEdgesCarryNoLocation ==
    pc \in {"ghosts", "done"} =>
        \A e \in (Len(BeforeGhosts.halfEdges) + 1)..Len(result.halfEdges) :
            /\ result.halfEdges[e].faceLabel = {}
            /\ result.halfEdges[e].edgeLabel \cap (locBoundary \cup locInterior) = {}
            /\ result.halfEdges[e].edgeLabel \subseteq populatedMask

\* C22: every vertex addGhosts introduces is unlabelled, every half-edge
\* addGhostLine makes has the populated bit clear in its edge label and in
\* its face label and carries no interior or boundary bit, and the labels
\* of what was in the dcel before addGhosts are unchanged.
C22_GhostsAreUnlabelled ==
    /\ GhostVerticesUnlabelled
    /\ GhostEdgesCarryNoLocation
    /\ pc \in {"ghosts", "done"} =>
        \A e \in (Len(BeforeGhosts.halfEdges) + 1)..Len(result.halfEdges) :
            /\ result.halfEdges[e].edgeLabel \cap populatedMask = {}
            /\ result.halfEdges[e].faceLabel \cap populatedMask = {}

\* A ghost that brought a vertex and a pair of half-edges.
GhostVertexSeen ==
    /\ pc = "done"
    /\ DOMAIN result.vertices # DOMAIN BeforeGhosts.vertices
    /\ Len(result.halfEdges) > Len(BeforeGhosts.halfEdges)


\* The linestrings newDCELFromMultiLineString is given, and how many times
\* an XY is the first or last point of an open one.
LineStringsGiven ==
    IF g1.type = "LineString" THEN <<g1.pts>> ELSE [i \in 1..Len(g1.lines) |-> g1.lines[i].pts]

OpenEndsAt(xy) ==
    Cardinality({o \in (1..Len(LineStringsGiven)) \X {"first", "last"} :
        LET seq == LineStringsGiven[o[1]]
        IN  /\ seq[1] # seq[Len(seq)]
            /\ xy = IF o[2] = "first" THEN seq[1] ELSE seq[Len(seq)]})

JustBuiltFromMultiLineString ==
    /\ pc = "ghosts"
    /\ part = 0
    /\ g1.type \in {"LineString", "MultiLineString"}

\* C23: in the dcel newDCELFromMultiLineString returns, a vertex is labelled
\* Boundary exactly when its XY is the first or last point of open
\* linestrings an odd number of times, and Interior otherwise.
C23_LocationFollowsMod2Rule ==
    JustBuiltFromMultiLineString =>
        \A xy \in DOMAIN result.vertices :
            /\ (result.vertices[xy].locLabel \cap locBoundary # {}) <=> (OpenEndsAt(xy) % 2 = 1)
            /\ (OpenEndsAt(xy) % 2 = 0) => result.vertices[xy].locLabel = g2.mask \cap locInterior

\* What the code does instead: Boundary when the XY is an open end at all,
\* Interior as well when it is also met elsewhere.
LocationIsTheUnion ==
    JustBuiltFromMultiLineString =>
        \A xy \in DOMAIN result.vertices :
            /\ (result.vertices[xy].locLabel \cap locBoundary # {}) <=> (OpenEndsAt(xy) >= 1)
            /\ result.vertices[xy].locLabel \subseteq g2.mask \cap (locBoundary \cup locInterior)
            /\ result.vertices[xy].locLabel # {}

\* The end of two open linestrings, labelled Boundary alone.
SharedOpenEndSeen ==
    /\ JustBuiltFromMultiLineString
    /\ OpenEndsAt(XY(2, 2)) = 2
    /\ result.vertices[XY(2, 2)].locLabel = g2.mask \cap locBoundary


\* ------------------------------------------------------------------------
\* quickPartition, one iteration of its loop at a time.  g1 is the bulkItems
\* value and g2 the k of the call; result holds the locals [items, k, left,
\* right, rndState, pivot, j] and part counts the iterations.  Item i has
\* the key keys[i] on the x axis and MaxKey - keys[i] on the y axis.
\* ------------------------------------------------------------------------

\* As QuickIteration, but the pivot is not put back between the partitions.
QuickIterationPivotAtEnd(st) ==
    LET rs == NextRnd(st.rndState)
        pivot == st.left + RndMod(rs, st.right - st.left + 1)
        pass == PartitionPass(Swap(st.items, pivot, st.right), st.left, st.left, st.right)
        j == pass[2]
        next == [st EXCEPT !.items = pass[1], !.rndState = rs, !.pivot = pivot, !.j = j]
    IN  IF j - st.left < st.k
        THEN [next EXCEPT !.k = st.k - (j - st.left + 1), !.left = j + 1]
        ELSE IF j - st.left > st.k THEN [next EXCEPT !.right = j - 1]
        ELSE [next EXCEPT !.returned = TRUE]

\* Lines 131-159: the locals after one iteration of the loop.
QuickIteration(st) ==
    LET rs == NextRnd(st.rndState)
        pivot == st.left + RndMod(rs, st.right - st.left + 1)
        pass == PartitionPass(Swap(st.items, pivot, st.right), st.left, st.left, st.right)
        j == pass[2]
        next == [st EXCEPT !.items = Swap(pass[1], st.right, j),
                           !.rndState = rs, !.pivot = pivot, !.j = j]
    IN  IF j - st.left < st.k
        THEN [next EXCEPT !.k = st.k - (j - st.left + 1), !.left = j + 1]
        ELSE IF j - st.left > st.k THEN [next EXCEPT !.right = j - 1]
        ELSE [next EXCEPT !.returned = TRUE]

InitQuick ==
    /\ pc = "loop"
    /\ \E n \in 1..MaxQuickLen, horizontal \in BOOLEAN :
        \E keys \in [1..n -> 0..MaxKey], k \in 0..(n - 1) :
            /\ g1 = [horizontal |-> horizontal,
                     items |-> [i \in 1..n |->
                                  [Box |-> [MinX |-> keys[i], MinY |-> MaxKey - keys[i],
                                            MaxX |-> keys[i], MaxY |-> MaxKey - keys[i]],
                                   RecordID |-> i]]]
            /\ g2 = k
            /\ result = [items |-> g1, k |-> k, left |-> 0, right |-> n - 1,
                         rndState |-> rndSeed, pivot |-> 0, j |-> 0, returned |-> FALSE]
    /\ Idle

QuickStep ==
    /\ pc = "loop"
    /\ result' = QuickIteration(result)
    /\ part' = part + 1
    /\ pc' = IF result'.returned THEN "done" ELSE "loop"
    /\ UNCHANGED <<g1, g2, reached, sides, sweepX, minDist, visited>>

NextQuick == QuickStep

SpecQuick == InitQuick /\ [][NextQuick]_vars

FairSpecQuick == SpecQuick /\ WF_vars(NextQuick)

\* The sort key of an item, and how many times an item is in a sequence.
SortKey(b, item) ==
    IF b.horizontal THEN item.Box.MinX + item.Box.MaxX ELSE item.Box.MinY + item.Box.MaxY

TimesIn(items, item) == Cardinality({i \in 1..Len(items) : items[i] = item})

\* C24: quickPartition on a non-empty sequence with 0 <= k < n returns
\* after at most n iterations, with the sequence a permutation of the input
\* in which the items before place k have keys at most that of item k and
\* the items after it keys at least that; every pivot and every j lies in
\* left..right of its iteration, within 0..n-1, so each Swap and Less is in
\* range.
C24_QuickPartitionPartitions ==
    pc \in {"loop", "done"} =>
        LET n == Len(g1.items)
            st == result
        IN  /\ part <= n
            /\ \A i \in 1..n : TimesIn(st.items.items, g1.items[i]) = TimesIn(g1.items, g1.items[i])
            /\ Len(st.items.items) = n
            /\ 0 <= st.left /\ st.right <= n - 1
            /\ part >= 1 => /\ 0 <= st.pivot /\ st.pivot <= n - 1
                            /\ 0 <= st.j /\ st.j <= n - 1
            /\ pc = "loop" => /\ st.left <= st.right
                              /\ 0 <= st.k /\ st.k <= st.right - st.left
            /\ pc = "done" =>
                /\ st.j = g2
                /\ \A i \in 1..n :
                    /\ i < g2 + 1 => SortKey(g1, st.items.items[i]) <= SortKey(g1, st.items.items[g2 + 1])
                    /\ i > g2 + 1 => SortKey(g1, st.items.items[i]) >= SortKey(g1, st.items.items[g2 + 1])

\* Every iteration that does not return narrows left..right, and its pivot
\* and j were inside the range it started with.
QuickRangeNarrows ==
    [][pc = "loop" =>
          /\ result.left <= result'.pivot /\ result'.pivot <= result.right
          /\ result.left <= result'.j /\ result'.j <= result.right
          /\ pc' = "loop" => result'.right - result'.left < result.right - result.left]_vars

QuickPartitionReturns == <>(pc = "done")

\* A call that took three iterations or more, moved items and had equal keys.
C24_Witness ==
    /\ pc = "done"
    /\ part >= 3
    /\ result.items.items # g1.items
    /\ \E i, m \in 1..Len(g1.items) : i # m /\ SortKey(g1, g1.items[i]) = SortKey(g1, g1.items[m])
    /\ g2 > 0 /\ g2 < Len(g1.items) - 1

\* The result equals what the loop in one piece returns.
QuickStepsAgreeWithQuickLoop ==
    pc = "done" => result.items.items = quickPartition(g1, g2)


\* ------------------------------------------------------------------------
\* The order of the unprocessed segments, and the progress of the sweep.
\* ------------------------------------------------------------------------

\* The place at which a segment was first appended to the unprocessed list
\* of an operand (lines 250-258).
InsertedAt(mls, ln) ==
    CHOOSE i \in 1..Len(SegmentsOf(mls)) :
        /\ SegmentsOf(mls)[i] = ln
        /\ \A k \in 1..(i - 1) : SegmentsOf(mls)[k] # ln

\* C25: each side's unprocessed list is in order of the segments' left end
\* point X, those of equal X in order of the left end point's Y, and those
\* of equal X and Y in the order they were inserted.
C25_UnprocessedOrderedByXThenY ==
    pc = "loop" =>
        \A s \in 1..2 :
            LET u == sides[s].unprocessed
                mls == IF s = 1 THEN g1 ELSE g2
            IN  \A i \in 1..Len(u), j \in 1..Len(u) :
                    i < j =>
                        \/ u[i].a.X < u[j].a.X
                        \/ u[i].a.X = u[j].a.X /\ u[i].a.Y < u[j].a.Y
                        \/ /\ u[i].a = u[j].a
                           /\ InsertedAt(mls, u[i]) <= InsertedAt(mls, u[j])

\* What the code keeps: order of left end point X, and among equal X the
\* order of insertion.
UnprocessedOrderedByXThenInsertion ==
    pc = "loop" =>
        \A s \in 1..2 :
            LET u == sides[s].unprocessed
                mls == IF s = 1 THEN g1 ELSE g2
            IN  \A i \in 1..Len(u), j \in 1..Len(u) :
                    i < j =>
                        \/ u[i].a.X < u[j].a.X
                        \/ /\ u[i].a.X = u[j].a.X
                           /\ InsertedAt(mls, u[i]) <= InsertedAt(mls, u[j])


\* The segments not yet moved to an active set.
Unprocessed(ss) == Len(ss[1].unprocessed) + Len(ss[2].unprocessed)

\* C26: every iteration of the sweep loop moves one segment or more from
\* the front of an unprocessed list to the active set of its side and to
\* the new segments of that iteration, nothing ever returns to an
\* unprocessed list, so each segment is moved and is new once, and every
\* sweepX is larger than the one before; the loop is therefore left after
\* at most as many iterations as there are segments.
C26_SweepMovesSegmentsOnce ==
    [][(pc = "loop" /\ SweepPending(sides)) =>
          /\ Unprocessed(sides') < Unprocessed(sides)
          /\ \A s \in 1..2 :
              /\ sides[s].unprocessed = sides'[s].newSegments \o sides'[s].unprocessed
              /\ \A c \in 1..Len(sides'[s].newSegments) :
                  /\ sides'[s].newSegments[c].a.X = sweepX'
                  /\ sides'[s].active[Len(sides'[s].active) - Len(sides'[s].newSegments) + c]
                        = sides'[s].newSegments[c]
              /\ \A c \in 1..Len(sides'[s].unprocessed) :
                  sides'[s].unprocessed[c].a.X > sweepX'
          /\ \/ Unprocessed(sides) = Len(SegmentsOf(g1)) + Len(SegmentsOf(g2))
             \/ sweepX' > sweepX]_vars

\* The loop was left with nothing unprocessed, after segments of three
\* different left X were moved, on both sides.
C26_Witness ==
    /\ pc = "done"
    /\ result = FALSE
    /\ Unprocessed(sides) = 0
    /\ sweepX = MaxSweepX
    /\ Len(SegmentsOf(g1)) + Len(SegmentsOf(g2)) = 3
    /\ \A x \in 0..MaxSweepX :
        \E s \in 1..2 : \E c \in 1..Len(SegmentsOf(IF s = 1 THEN g1 ELSE g2)) :
            SegmentsOf(IF s = 1 THEN g1 ELSE g2)[c].a.X = x


\* ------------------------------------------------------------------------
\* forEachNonInteractingSegment, one iteration of its loop at a time, with
\* a callback that only records its argument.  g1 is seq, g2 interactions,
\* result the locals [i, end, calls] (places counted from 0, calls the
\* segments fn was called with) and part the number of iterations.  make
\* panics on a negative length.
\* ------------------------------------------------------------------------

\* As SegmentIteration, but the next segment starts one place after the end
\* of the last.
SegmentIterationPastEnd(seq, interactions, st) ==
    LET start == st.i
        js == {j \in (start + 1)..(Len(seq) - 1) : seq[j + 1] \in interactions}
        end == IF js = {} THEN 0 ELSE CHOOSE j \in js : \A m \in js : j <= m
    IN  IF end - start + 1 < 0 THEN [st EXCEPT !.end = end, !.panicked = TRUE]
        ELSE [st EXCEPT !.end = end,
                        !.calls = Append(@, [j \in 1..(end - start + 1) |-> seq[start + j]]),
                        !.i = end + 1]

\* Lines 363-386: the locals after one iteration.
SegmentIteration(seq, interactions, st) ==
    LET start == st.i
        js == {j \in (start + 1)..(Len(seq) - 1) : seq[j + 1] \in interactions}
        end == IF js = {} THEN 0 ELSE CHOOSE j \in js : \A m \in js : j <= m
    IN  IF end - start + 1 < 0 THEN [st EXCEPT !.end = end, !.panicked = TRUE]
        ELSE [st EXCEPT !.end = end,
                        !.calls = Append(@, [j \in 1..(end - start + 1) |-> seq[start + j]]),
                        !.i = end]

InitSegments ==
    /\ pc = "loop"
    /\ \E n \in 0..MaxSeqLen :
        g1 \in [1..n -> {XY(x, 0) : x \in 0..MaxSeqX}]
    /\ g2 \in SUBSET {XY(x, 0) : x \in 0..MaxSeqX}
    /\ result = [i |-> 0, end |-> 0, calls |-> <<>>, panicked |-> FALSE]
    /\ Idle

SegmentStep ==
    /\ pc = "loop"
    /\ result.i < Len(g1) - 1
    /\ part < MaxCalls
    /\ result' = SegmentIteration(g1, g2, result)
    /\ part' = part + 1
    /\ pc' = IF result'.panicked THEN "panicked" ELSE "loop"
    /\ UNCHANGED <<g1, g2, reached, sides, sweepX, minDist, visited>>

SegmentsReturn ==
    /\ pc = "loop"
    /\ ~(result.i < Len(g1) - 1)
    /\ pc' = "returned"
    /\ UNCHANGED <<g1, g2, result, reached, sides, sweepX, minDist, part, visited>>

NextSegments == SegmentStep \/ SegmentsReturn

SpecSegments == InitSegments /\ [][NextSegments]_vars

\* The segments joined, the XY two consecutive ones share taken once.
RECURSIVE Joined(_)
Joined(calls) ==
    IF calls = <<>> THEN <<>>
    ELSE IF Len(calls) = 1 THEN calls[1]
    ELSE calls[1] \o Tail(Joined(Tail(calls)))

EndsInteract == Len(g1) >= 2 /\ g1[1] \in g2 /\ g1[Len(g1)] \in g2

\* With first and last XY in interactions: the loop returns within n - 1
\* iterations, every segment has two XYs or more, starts and ends at an
\* interaction point with none strictly inside, starts where the one before
\* ended, and the segments joined are the sequence.
SegmentsCoverTheSequence ==
    EndsInteract =>
        /\ pc # "panicked"
        /\ part <= Len(g1) - 1
        /\ pc = "loop" => result.i < Len(g1) - 1 \/ result.i = Len(g1) - 1
        /\ \A c \in 1..Len(result.calls) :
            LET seg == result.calls[c]
            IN  /\ Len(seg) >= 2
                /\ seg[1] \in g2 /\ seg[Len(seg)] \in g2
                /\ \A k \in 2..(Len(seg) - 1) : seg[k] \notin g2
                /\ c > 1 => seg[1] = result.calls[c - 1][Len(result.calls[c - 1])]
        /\ pc = "returned" => /\ result.calls # <<>>
                              /\ Joined(result.calls) = g1

\* With n >= 2 and the last XY not in interactions the loop never returns.
NoReturnWithoutLastInteraction ==
    (Len(g1) >= 2 /\ g1[Len(g1)] \notin g2) => pc # "returned"

\* ... because the iteration that finds no interaction point after i leaves
\* end at 0: make panics, or fn gets fewer than two XYs and i goes back to 0.
EndStaysZero ==
    (/\ pc = "loop"
     /\ result.i < Len(g1) - 1
     /\ part < MaxCalls
     /\ \A j \in (result.i + 2)..Len(g1) : g1[j] \notin g2)
    => /\ result'.end = 0
       /\ \/ pc' = "panicked"
          \/ /\ result'.i = 0
             /\ Len(result'.calls[Len(result'.calls)]) < 2

\* C27: for n >= 2 XYs with the first and the last in interactions,
\* forEachNonInteractingSegment returns and has called fn with segments as
\* above; when the last XY is not in interactions, end stays 0 and the loop
\* makes no progress and does not return.
C27_SegmentsBetweenInteractions ==
    /\ [](SegmentsCoverTheSequence /\ NoReturnWithoutLastInteraction)
    /\ [][EndStaysZero]_vars

\* A sequence cut into three segments, one of three XYs; and a run that
\* came back to place 0 again and again.
C27_Witness ==
    /\ pc = "returned"
    /\ EndsInteract
    /\ Len(result.calls) = 2
    /\ \E c \in 1..2 : Len(result.calls[c]) = 3

LoopWithoutProgressSeen ==
    /\ pc = "loop"
    /\ part = MaxCalls
    /\ result.i = 0
    /\ Len(g1) >= 2

MakePanicSeen == pc = "panicked" /\ result.end = 0 /\ result.i >= 2

\* Where the loop returns, fn was called with what the segment list used
\* for the dcel holds.
SegmentStepsAgree ==
    pc = "returned" => result.calls = forEachNonInteractingSegment(g1, g2, 1)


\* ------------------------------------------------------------------------
\* The records and the shape of the tree BulkLoad returns.
\* ------------------------------------------------------------------------

\* The leaf entries under a node, as items, left to right.
RECURSIVE LeafItems(_)
LeafItems(n) ==
    IF n.isLeaf THEN [i \in 1..Len(n.entries) |->
                        [Box |-> n.entries[i].box, RecordID |-> n.entries[i].recordID]]
    ELSE FlattenSeq([i \in 1..Len(n.entries) |-> LeafItems(n.entries[i].child[1])])

\* The smallest box around the boxes of a non-empty sequence of items.
BoxAround(items) ==
    LET Least(S) == CHOOSE x \in S : \A y \in S : x <= y
        Most(S) == CHOOSE x \in S : \A y \in S : x >= y
        I == 1..Len(items)
    IN  [MinX |-> Least({items[i].Box.MinX : i \in I}), MinY |-> Least({items[i].Box.MinY : i \in I}),
         MaxX |-> Most({items[i].Box.MaxX : i \in I}), MaxY |-> Most({items[i].Box.MaxY : i \in I})]

\* C28: the leaf entries of the tree BulkLoad returns are the input items,
\* each as many times as it is in the input, and the box of every entry
\* above the leaves is the bound of its child: the smallest box around
\* everything stored under it.
C28_TreeHoldsEveryRecordOnce ==
    pc = "done" =>
        LET leaves == IF result.root = <<>> THEN <<>> ELSE LeafItems(result.root[1])
        IN  /\ Len(leaves) = Len(g1)
            /\ \A i \in 1..Len(g1) : TimesIn(leaves, g1[i]) = TimesIn(g1, g1[i])
            /\ \A k \in 1..Len(TreeNodes) :
                ~TreeNodes[k].isLeaf =>
                    \A e \in 1..Len(TreeNodes[k].entries) :
                        LET entry == TreeNodes[k].entries[e]
                        IN  /\ entry.box = calculateBound(entry.child[1])
                            /\ entry.box = BoxAround(LeafItems(entry.child[1]))

\* A tree of three levels over items in another order than the input's.
C28_Witness ==
    /\ pc = "done"
    /\ Len(g1) > 16
    /\ LeafItems(result.root[1]) # g1
    /\ Len(LeafItems(result.root[1])) = Len(g1)
    /\ \E k \in 1..Len(TreeNodes) :
        /\ ~TreeNodes[k].isLeaf
        /\ TreeNodes[k].entries[1].box # TreeNodes[k].entries[2].box


\* BulkLoad with the nodes kept in a heap, so that parent pointers can be
\* followed: a node is its place in heap (0 is nil), an entry's child is the
\* place of the child node.  Returns [heap, root]; the nodes are allocated in
\* the order the code allocates them, a parent before its children.
BulkLoadHeap(items) ==
    LET RECURSIVE Insert(_, _, _)
        RECURSIVE Node(_, _, _, _, _)
        \* bulkNode from part i on, root being the place of the new node.
        Node(heap, levels, parts, root, i) ==
            IF i > Len(parts) THEN heap
            ELSE LET made == Insert(heap, parts[i], levels - 1)
                     child == made.root
                     linked == [made.heap EXCEPT
                                  ![child].parent = root,
                                  ![root].entries = Append(@, [box |-> calculateBound(made.heap[child]),
                                                               recordID |-> 0,
                                                               child |-> child])]
                 IN  Node(linked, levels, parts, root, i + 1)
        Insert(heap, its, levels) ==
            IF levels = 1
            THEN [heap |-> Append(heap, [isLeaf |-> TRUE, parent |-> 0,
                                         entries |-> [i \in 1..Len(its) |->
                                                        [box |-> its[i].Box,
                                                         recordID |-> its[i].RecordID,
                                                         child |-> 0]]]),
                  root |-> Len(heap) + 1]
            ELSE LET split == IF Len(its) < 6 THEN splitBulkItems2Ways(its)
                              ELSE IF Len(its) < 8 THEN splitBulkItems3Ways(its)
                              ELSE splitBulkItems4Ways(its)
                     root == Len(heap) + 1
                 IN  [heap |-> Node(Append(heap, [isLeaf |-> FALSE, parent |-> 0, entries |-> <<>>]),
                                    levels, split.parts, root, 1),
                      root |-> root]
    IN  IF Len(items) = 0 THEN [heap |-> <<>>, root |-> 0]
        ELSE Insert(<<>>, items, calculateLevels(Len(items)))

\* The node at a place of the heap as a tree, and the depth of a place (the
\* root has depth 1).
RECURSIVE Unfolded(_, _)
Unfolded(heap, n) ==
    [isLeaf |-> heap[n].isLeaf,
     entries |-> [i \in 1..Len(heap[n].entries) |->
                    [box |-> heap[n].entries[i].box,
                     recordID |-> heap[n].entries[i].recordID,
                     child |-> IF heap[n].isLeaf THEN <<>>
                               ELSE <<Unfolded(heap, heap[n].entries[i].child)>>]]]

RECURSIVE DepthOf(_, _)
DepthOf(heap, n) == IF heap[n].parent = 0 THEN 1 ELSE 1 + DepthOf(heap, heap[n].parent)

\* The smallest L >= 1 with 4^L >= n.
LevelsNeeded(n) ==
    LET RECURSIVE Pow4(_)
        Pow4(l) == IF l = 0 THEN 1 ELSE 4 * Pow4(l - 1)
    IN  CHOOSE l \in 1..8 : Pow4(l) >= n /\ \A m \in 1..(l - 1) : Pow4(m) < n

\* C29: in the tree BulkLoad returns for N >= 1 items every leaf is at depth
\* calculateLevels(N), the smallest L >= 1 with 4^L >= N; the parent of
\* every child is the node whose entry holds it, and the root has no parent.
C29_TreeBalancedWithParents ==
    (pc = "done" /\ Len(g1) >= 1) =>
        LET h == BulkLoadHeap(g1)
            heap == h.heap
        IN  /\ Unfolded(heap, h.root) = result.root[1]
            /\ calculateLevels(Len(g1)) = LevelsNeeded(Len(g1))
            /\ heap[h.root].parent = 0
            /\ \A n \in 1..Len(heap) :
                /\ heap[n].isLeaf => DepthOf(heap, n) = LevelsNeeded(Len(g1))
                /\ ~heap[n].isLeaf =>
                    \A e \in 1..Len(heap[n].entries) :
                        /\ heap[n].entries[e].child \in 1..Len(heap)
                        /\ heap[heap[n].entries[e].child].parent = n
                /\ n # h.root =>
                    /\ heap[n].parent \in 1..Len(heap)
                    /\ Cardinality({e \in 1..Len(heap[heap[n].parent].entries) :
                                      heap[heap[n].parent].entries[e].child = n}) = 1

\* Seventeen items: three levels, the leaves at depth 3 under inner nodes
\* whose parent is the root.
C29_Witness ==
    /\ pc = "done"
    /\ Len(g1) = 17
    /\ LET h == BulkLoadHeap(g1)
       IN  /\ \E n \in 1..Len(h.heap) : h.heap[n].isLeaf /\ DepthOf(h.heap, n) = 3
           /\ \E n \in 1..Len(h.heap) : ~h.heap[n].isLeaf /\ h.heap[n].parent = h.root
           /\ Unfolded(h.heap, h.root) = result.root[1]


\* ------------------------------------------------------------------------
\* The outcome of distance on empty operands, and the record IDs.
\* ------------------------------------------------------------------------

\* The record IDs the visitor may be handed next.
RecordsInSight ==
    IF pc = "search" /\ part <= NumParts
    THEN visited \cup NextRecords(PartEnvelope(part), visited)
    ELSE visited

\* C30: distance returns (0, false) exactly when one of the operands has no
\* point and no segment, and otherwise ok with a finite distance that is
\* not negative; no item of the tree has record ID 0, and every record ID
\* the visitor sees is the place of an XY of the second operand (positive,
\* id - 1) or of one of its lines (negative, -id - 1).
C30_DistanceOutcomeAndRecordIDs ==
    /\ pc = "done" =>
        IF NumParts = 0 \/ Len(xys2) + Len(lns2) = 0
        THEN result = [dist |-> Zero, ok |-> FALSE]
        ELSE /\ result.ok
             /\ result.dist[2] > 0
             /\ result.dist[1] >= 0
    /\ \A i \in 1..Len(tr) : tr[i].RecordID # 0
    /\ \A recordID \in RecordsInSight :
        /\ recordID # 0
        /\ recordID > 0 => (recordID - 1) \in 0..(Len(xys2) - 1)
        /\ recordID < 0 => (0 - recordID - 1) \in 0..(Len(lns2) - 1)

\* A positive distance to an operand that has points and lines, found after
\* the visitor saw a point record and a line record.
C30_Witness ==
    /\ pc = "search"
    /\ Len(xys2) > 0
    /\ Len(lns2) > 0
    /\ \E p \in visited : p > 0
    /\ \E n \in visited : n < 0
    /\ minDist # Inf
    /\ RatLess(Zero, minDist)

\* No distance to an empty operand from one that is not empty.
NoDistanceToEmptySeen ==
    /\ pc = "done"
    /\ NumParts > 0
    /\ Len(xys2) + Len(lns2) = 0
    /\ result = [dist |-> Zero, ok |-> FALSE]

PositiveDistanceSeen ==
    /\ pc = "done"
    /\ result.ok
    /\ RatLess(Zero, result.dist)
    /\ Len(xys2) > 0 /\ Len(lns2) > 0

=============================================================================
